---- MODULE Spec2Model ----
(***************************************************************************)
(* VARZ (Visually Accessible Recognition Zone): the voice facade of        *)
(* VARZService (varzService.ts) together with its pure text functions      *)
(* (explainCode, processVoiceCommand, generateCodeFromSpeech) and the      *)
(* toolbar handlers of VARZContribution (varz.contribution.ts).            *)
(*                                                                         *)
(* A JavaScript string is modelled as a sequence of one-character strings, *)
(* so that includes(), startsWith(), trim(), split(), toLowerCase() and    *)
(* the regular expressions of the source are computed character by         *)
(* character.                                                              *)
(***************************************************************************)
EXTENDS Naturals, Sequences, FiniteSets, TLC

\* Number of SpeechRecognition objects the model lets startVoiceInput create.
MaxSessions == 2

-----------------------------------------------------------------------------
(* Characters and the String methods the source uses.                      *)

LowerLetters ==
    {"a","b","c","d","e","f","g","h","i","j","k","l","m",
     "n","o","p","q","r","s","t","u","v","w","x","y","z"}

UpperLetters ==
    {"A","B","C","D","E","F","G","H","I","J","K","L","M",
     "N","O","P","Q","R","S","T","U","V","W","X","Y","Z"}

Digits == {"0","1","2","3","4","5","6","7","8","9"}

\* \w of a JavaScript regular expression
WordChars == LowerLetters \cup UpperLetters \cup Digits \cup {"_"}

\* \s of a JavaScript regular expression / the characters trim() removes:
\* space, \t, \n, \r, \f, \v (U+000B), U+00A0, U+1680 and U+FEFF. The other
\* white space of the language (U+2000-U+200A, U+2028, U+2029, U+202F, U+205F,
\* U+3000) cannot be written in a string of the model.
SpaceChars == {" ", "\t", "\n", "\r", "\f", "", " ", " ", "﻿"}

\* ' and " (the class ['"] of the source's regular expressions)
QuoteChars == {"'", "\""}

\* toLowerCase of one character, by the case mapping of Unicode 17: every
\* letter the strings of the model can hold, beside U+03A3, which depends on
\* its place and is lowered by ToLowerCase. The lower-case form is the
\* character itself where a string of the model can hold it (pairs); the 94
\* forms it cannot hold (U+0253 of U+0181, U+2D00 of U+10A0, U+AB70 of
\* U+13A0 ...) are named by their code point, one element each (named).
UpperToLower ==
    LET pairs ==
          {
           <<"A","a">>, <<"B","b">>, <<"C","c">>, <<"D","d">>, <<"E","e">>, <<"F","f">>,
           <<"G","g">>, <<"H","h">>, <<"I","i">>, <<"J","j">>, <<"K","k">>, <<"L","l">>,
           <<"M","m">>, <<"N","n">>, <<"O","o">>, <<"P","p">>, <<"Q","q">>, <<"R","r">>,
           <<"S","s">>, <<"T","t">>, <<"U","u">>, <<"V","v">>, <<"W","w">>, <<"X","x">>,
           <<"Y","y">>, <<"Z","z">>, <<"À","à">>, <<"Á","á">>, <<"Â","â">>, <<"Ã","ã">>,
           <<"Ä","ä">>, <<"Å","å">>, <<"Æ","æ">>, <<"Ç","ç">>, <<"È","è">>, <<"É","é">>,
           <<"Ê","ê">>, <<"Ë","ë">>, <<"Ì","ì">>, <<"Í","í">>, <<"Î","î">>, <<"Ï","ï">>,
           <<"Ð","ð">>, <<"Ñ","ñ">>, <<"Ò","ò">>, <<"Ó","ó">>, <<"Ô","ô">>, <<"Õ","õ">>,
           <<"Ö","ö">>, <<"Ø","ø">>, <<"Ù","ù">>, <<"Ú","ú">>, <<"Û","û">>, <<"Ü","ü">>,
           <<"Ý","ý">>, <<"Þ","þ">>, <<"Ƃ","ƃ">>, <<"Ƅ","ƅ">>, <<"Ƈ","ƈ">>, <<"Ƌ","ƌ">>,
           <<"Ǝ","ǝ">>, <<"Ƒ","ƒ">>, <<"Ƙ","ƙ">>, <<"Ơ","ơ">>, <<"Ƣ","ƣ">>, <<"Ƥ","ƥ">>,
           <<"Ʀ","ʀ">>, <<"Ƨ","ƨ">>, <<"Ʃ","ʃ">>, <<"Ƭ","ƭ">>, <<"Ʈ","ʈ">>, <<"Ư","ư">>,
           <<"Ʊ","ʊ">>, <<"Ʋ","ʋ">>, <<"Ƴ","ƴ">>, <<"Ƶ","ƶ">>, <<"Ʒ","ʒ">>, <<"Ƹ","ƹ">>,
           <<"Ƽ","ƽ">>, <<"Ǆ","ǆ">>, <<"ǅ","ǆ">>, <<"Ǉ","ǉ">>, <<"ǈ","ǉ">>, <<"Ǌ","ǌ">>,
           <<"ǋ","ǌ">>, <<"Ǎ","ǎ">>, <<"Ǐ","ǐ">>, <<"Ǒ","ǒ">>, <<"Ǔ","ǔ">>, <<"Ǖ","ǖ">>,
           <<"Ǘ","ǘ">>, <<"Ǚ","ǚ">>, <<"Ǜ","ǜ">>, <<"Ǟ","ǟ">>, <<"Ǡ","ǡ">>, <<"Ǣ","ǣ">>,
           <<"Ǥ","ǥ">>, <<"Ǧ","ǧ">>, <<"Ǩ","ǩ">>, <<"Ǫ","ǫ">>, <<"Ǭ","ǭ">>, <<"Ǯ","ǯ">>,
           <<"Ǳ","ǳ">>, <<"ǲ","ǳ">>, <<"Ǵ","ǵ">>, <<"Ƕ","ƕ">>, <<"Ƿ","ƿ">>, <<"Ǹ","ǹ">>,
           <<"Ǻ","ǻ">>, <<"Ǽ","ǽ">>, <<"Ǿ","ǿ">>, <<"Ά","ά">>, <<"Έ","έ">>, <<"Ή","ή">>,
           <<"Ί","ί">>, <<"Ό","ό">>, <<"Ύ","ύ">>, <<"Ώ","ώ">>, <<"Α","α">>, <<"Β","β">>,
           <<"Γ","γ">>, <<"Δ","δ">>, <<"Ε","ε">>, <<"Ζ","ζ">>, <<"Η","η">>, <<"Θ","θ">>,
           <<"Ι","ι">>, <<"Κ","κ">>, <<"Λ","λ">>, <<"Μ","μ">>, <<"Ν","ν">>, <<"Ξ","ξ">>,
           <<"Ο","ο">>, <<"Π","π">>, <<"Ρ","ρ">>, <<"Τ","τ">>, <<"Υ","υ">>, <<"Φ","φ">>,
           <<"Χ","χ">>, <<"Ψ","ψ">>, <<"Ω","ω">>, <<"Ϊ","ϊ">>, <<"Ϋ","ϋ">>, <<"Ϗ","ϗ">>,
           <<"Ϙ","ϙ">>, <<"Ϛ","ϛ">>, <<"Ϝ","ϝ">>, <<"Ϟ","ϟ">>, <<"Ϡ","ϡ">>, <<"Ϣ","ϣ">>,
           <<"Ϥ","ϥ">>, <<"Ϧ","ϧ">>, <<"Ϩ","ϩ">>, <<"Ϫ","ϫ">>, <<"Ϭ","ϭ">>, <<"Ϯ","ϯ">>,
           <<"ϴ","θ">>, <<"Ϸ","ϸ">>, <<"Ϲ","ϲ">>, <<"Ϻ","ϻ">>, <<"Ҁ","ҁ">>, <<"Ҋ","ҋ">>,
           <<"Ҍ","ҍ">>, <<"Ҏ","ҏ">>, <<"Ґ","ґ">>, <<"Ғ","ғ">>, <<"Ҕ","ҕ">>, <<"Җ","җ">>,
           <<"Ҙ","ҙ">>, <<"Қ","қ">>, <<"Ҝ","ҝ">>, <<"Ҟ","ҟ">>, <<"Ҡ","ҡ">>, <<"Ң","ң">>,
           <<"Ҥ","ҥ">>, <<"Ҧ","ҧ">>, <<"Ҩ","ҩ">>, <<"Ҫ","ҫ">>, <<"Ҭ","ҭ">>, <<"Ү","ү">>,
           <<"Ұ","ұ">>, <<"Ҳ","ҳ">>, <<"Ҵ","ҵ">>, <<"Ҷ","ҷ">>, <<"Ҹ","ҹ">>, <<"Һ","һ">>,
           <<"Ҽ","ҽ">>, <<"Ҿ","ҿ">>, <<"Ӏ","ӏ">>, <<"Ӂ","ӂ">>, <<"Ӄ","ӄ">>, <<"Ӆ","ӆ">>,
           <<"Ӈ","ӈ">>, <<"Ӊ","ӊ">>, <<"Ӌ","ӌ">>, <<"Ӎ","ӎ">>, <<"Ӑ","ӑ">>, <<"Ӓ","ӓ">>,
           <<"Ӕ","ӕ">>, <<"Ӗ","ӗ">>, <<"Ә","ә">>, <<"Ӛ","ӛ">>, <<"Ӝ","ӝ">>, <<"Ӟ","ӟ">>,
           <<"Ӡ","ӡ">>, <<"Ӣ","ӣ">>, <<"Ӥ","ӥ">>, <<"Ӧ","ӧ">>, <<"Ө","ө">>, <<"Ӫ","ӫ">>,
           <<"Ӭ","ӭ">>, <<"Ӯ","ӯ">>, <<"Ӱ","ӱ">>, <<"Ӳ","ӳ">>, <<"Ӵ","ӵ">>, <<"Ӷ","ӷ">>,
           <<"Ӹ","ӹ">>, <<"Ӻ","ӻ">>, <<"Ӽ","ӽ">>, <<"Ӿ","ӿ">>, <<"Ꮀ","ꮀ">>, <<"Ꮁ","ꮁ">>,
           <<"Ꮂ","ꮂ">>, <<"Ꮃ","ꮃ">>, <<"Ꮄ","ꮄ">>, <<"Ꮅ","ꮅ">>, <<"Ꮆ","ꮆ">>, <<"Ꮇ","ꮇ">>,
           <<"Ꮈ","ꮈ">>, <<"Ꮉ","ꮉ">>, <<"Ꮊ","ꮊ">>, <<"Ꮋ","ꮋ">>, <<"Ꮌ","ꮌ">>, <<"Ꮍ","ꮍ">>,
           <<"Ꮎ","ꮎ">>, <<"Ꮏ","ꮏ">>, <<"Ꮐ","ꮐ">>, <<"Ꮑ","ꮑ">>, <<"Ꮒ","ꮒ">>, <<"Ꮓ","ꮓ">>,
           <<"Ꮔ","ꮔ">>, <<"Ꮕ","ꮕ">>, <<"Ꮖ","ꮖ">>, <<"Ꮗ","ꮗ">>, <<"Ꮘ","ꮘ">>, <<"Ꮙ","ꮙ">>,
           <<"Ꮚ","ꮚ">>, <<"Ꮛ","ꮛ">>, <<"Ꮜ","ꮜ">>, <<"Ꮝ","ꮝ">>, <<"Ꮞ","ꮞ">>, <<"Ꮟ","ꮟ">>,
           <<"Ꮠ","ꮠ">>, <<"Ꮡ","ꮡ">>, <<"Ꮢ","ꮢ">>, <<"Ꮣ","ꮣ">>, <<"Ꮤ","ꮤ">>, <<"Ꮥ","ꮥ">>,
           <<"Ꮦ","ꮦ">>, <<"Ꮧ","ꮧ">>, <<"Ꮨ","ꮨ">>, <<"Ꮩ","ꮩ">>, <<"Ꮪ","ꮪ">>, <<"Ꮫ","ꮫ">>,
           <<"Ꮬ","ꮬ">>, <<"Ꮭ","ꮭ">>, <<"Ꮮ","ꮮ">>, <<"Ꮯ","ꮯ">>, <<"Ꮰ","ꮰ">>, <<"Ꮱ","ꮱ">>,
           <<"Ꮲ","ꮲ">>, <<"Ꮳ","ꮳ">>, <<"Ꮴ","ꮴ">>, <<"Ꮵ","ꮵ">>, <<"Ꮶ","ꮶ">>, <<"Ꮷ","ꮷ">>,
           <<"Ꮸ","ꮸ">>, <<"Ꮹ","ꮹ">>, <<"Ꮺ","ꮺ">>, <<"Ꮻ","ꮻ">>, <<"Ꮼ","ꮼ">>, <<"Ꮽ","ꮽ">>,
           <<"Ꮾ","ꮾ">>, <<"Ꮿ","ꮿ">>, <<"Ᏸ","ᏸ">>, <<"Ᏹ","ᏹ">>, <<"Ᏺ","ᏺ">>, <<"Ᏻ","ᏻ">>,
           <<"Ᏼ","ᏼ">>, <<"Ᏽ","ᏽ">>, <<"Ᲊ","ᲊ">>, <<"Ა","ა">>, <<"Ბ","ბ">>, <<"Გ","გ">>,
           <<"Დ","დ">>, <<"Ე","ე">>, <<"Ვ","ვ">>, <<"Ზ","ზ">>, <<"Თ","თ">>, <<"Ი","ი">>,
           <<"Კ","კ">>, <<"Ლ","ლ">>, <<"Მ","მ">>, <<"Ნ","ნ">>, <<"Ო","ო">>, <<"Პ","პ">>,
           <<"Ჟ","ჟ">>, <<"Რ","რ">>, <<"Ს","ს">>, <<"Ტ","ტ">>, <<"Უ","უ">>, <<"Ფ","ფ">>,
           <<"Ქ","ქ">>, <<"Ღ","ღ">>, <<"Ყ","ყ">>, <<"Შ","შ">>, <<"Ჩ","ჩ">>, <<"Ც","ც">>,
           <<"Ძ","ძ">>, <<"Წ","წ">>, <<"Ჭ","ჭ">>, <<"Ხ","ხ">>, <<"Ჯ","ჯ">>, <<"Ჰ","ჰ">>,
           <<"Ჱ","ჱ">>, <<"Ჲ","ჲ">>, <<"Ჳ","ჳ">>, <<"Ჴ","ჴ">>, <<"Ჵ","ჵ">>, <<"Ჶ","ჶ">>,
           <<"Ჷ","ჷ">>, <<"Ჸ","ჸ">>, <<"Ჹ","ჹ">>, <<"Ჺ","ჺ">>, <<"Ჽ","ჽ">>, <<"Ჾ","ჾ">>,
           <<"Ჿ","ჿ">>, <<"Ẁ","ẁ">>, <<"Ẃ","ẃ">>, <<"Ẅ","ẅ">>, <<"Ẇ","ẇ">>, <<"Ẉ","ẉ">>,
           <<"Ẋ","ẋ">>, <<"Ẍ","ẍ">>, <<"Ẏ","ẏ">>, <<"Ẑ","ẑ">>, <<"Ẓ","ẓ">>, <<"Ẕ","ẕ">>,
           <<"ẞ","ß">>, <<"Ạ","ạ">>, <<"Ả","ả">>, <<"Ấ","ấ">>, <<"Ầ","ầ">>, <<"Ẩ","ẩ">>,
           <<"Ẫ","ẫ">>, <<"Ậ","ậ">>, <<"Ắ","ắ">>, <<"Ằ","ằ">>, <<"Ẳ","ẳ">>, <<"Ẵ","ẵ">>,
           <<"Ặ","ặ">>, <<"Ẹ","ẹ">>, <<"Ẻ","ẻ">>, <<"Ẽ","ẽ">>, <<"Ế","ế">>, <<"Ề","ề">>,
           <<"Ể","ể">>, <<"Ễ","ễ">>, <<"Ệ","ệ">>, <<"Ỉ","ỉ">>, <<"Ị","ị">>, <<"Ọ","ọ">>,
           <<"Ỏ","ỏ">>, <<"Ố","ố">>, <<"Ồ","ồ">>, <<"Ổ","ổ">>, <<"Ỗ","ỗ">>, <<"Ộ","ộ">>,
           <<"Ớ","ớ">>, <<"Ờ","ờ">>, <<"Ở","ở">>, <<"Ỡ","ỡ">>, <<"Ợ","ợ">>, <<"Ụ","ụ">>,
           <<"Ủ","ủ">>, <<"Ứ","ứ">>, <<"Ừ","ừ">>, <<"Ử","ử">>, <<"Ữ","ữ">>, <<"Ự","ự">>,
           <<"Ỳ","ỳ">>, <<"Ỵ","ỵ">>, <<"Ỷ","ỷ">>, <<"Ỹ","ỹ">>, <<"Ỻ","ỻ">>, <<"Ỽ","ỽ">>,
           <<"Ỿ","ỿ">>, <<"ᾈ","ᾀ">>, <<"ᾉ","ᾁ">>, <<"ᾊ","ᾂ">>, <<"ᾋ","ᾃ">>, <<"ᾌ","ᾄ">>,
           <<"ᾍ","ᾅ">>, <<"ᾎ","ᾆ">>, <<"ᾏ","ᾇ">>, <<"ᾘ","ᾐ">>, <<"ᾙ","ᾑ">>, <<"ᾚ","ᾒ">>,
           <<"ᾛ","ᾓ">>, <<"ᾜ","ᾔ">>, <<"ᾝ","ᾕ">>, <<"ᾞ","ᾖ">>, <<"ᾟ","ᾗ">>, <<"ᾨ","ᾠ">>,
           <<"ᾩ","ᾡ">>, <<"ᾪ","ᾢ">>, <<"ᾫ","ᾣ">>, <<"ᾬ","ᾤ">>, <<"ᾭ","ᾥ">>, <<"ᾮ","ᾦ">>,
           <<"ᾯ","ᾧ">>, <<"Ᾰ","ᾰ">>, <<"Ᾱ","ᾱ">>, <<"ᾼ","ᾳ">>, <<"ῌ","ῃ">>, <<"Ῐ","ῐ">>,
           <<"Ῑ","ῑ">>, <<"Ῠ","ῠ">>, <<"Ῡ","ῡ">>, <<"Ῥ","ῥ">>, <<"ῼ","ῳ">>, <<"Ↄ","ↄ">>,
           <<"Ⓐ","ⓐ">>, <<"Ⓑ","ⓑ">>, <<"Ⓒ","ⓒ">>, <<"Ⓓ","ⓓ">>, <<"Ⓔ","ⓔ">>, <<"Ⓕ","ⓕ">>,
           <<"Ⓖ","ⓖ">>, <<"Ⓗ","ⓗ">>, <<"Ⓘ","ⓘ">>, <<"Ⓙ","ⓙ">>, <<"Ⓚ","ⓚ">>, <<"Ⓛ","ⓛ">>,
           <<"Ⓜ","ⓜ">>, <<"Ⓝ","ⓝ">>, <<"Ⓞ","ⓞ">>, <<"Ⓟ","ⓟ">>, <<"Ⓠ","ⓠ">>, <<"Ⓡ","ⓡ">>,
           <<"Ⓢ","ⓢ">>, <<"Ⓣ","ⓣ">>, <<"Ⓤ","ⓤ">>, <<"Ⓥ","ⓥ">>, <<"Ⓦ","ⓦ">>, <<"Ⓧ","ⓧ">>,
           <<"Ⓨ","ⓨ">>, <<"Ⓩ","ⓩ">>, <<"Ⲁ","ⲁ">>, <<"Ⲃ","ⲃ">>, <<"Ⲅ","ⲅ">>, <<"Ⲇ","ⲇ">>,
           <<"Ⲉ","ⲉ">>, <<"Ⲋ","ⲋ">>, <<"Ⲍ","ⲍ">>, <<"Ⲏ","ⲏ">>, <<"Ⲑ","ⲑ">>, <<"Ⲓ","ⲓ">>,
           <<"Ⲕ","ⲕ">>, <<"Ⲗ","ⲗ">>, <<"Ⲙ","ⲙ">>, <<"Ⲛ","ⲛ">>, <<"Ⲝ","ⲝ">>, <<"Ⲟ","ⲟ">>,
           <<"Ⲡ","ⲡ">>, <<"Ⲣ","ⲣ">>, <<"Ⲥ","ⲥ">>, <<"Ⲧ","ⲧ">>, <<"Ⲩ","ⲩ">>, <<"Ⲫ","ⲫ">>,
           <<"Ⲭ","ⲭ">>, <<"Ⲯ","ⲯ">>, <<"Ⲱ","ⲱ">>, <<"Ⲳ","ⲳ">>, <<"Ⲵ","ⲵ">>, <<"Ⲷ","ⲷ">>,
           <<"Ⲹ","ⲹ">>, <<"Ⲻ","ⲻ">>, <<"Ⲽ","ⲽ">>, <<"Ⲿ","ⲿ">>, <<"Ⳁ","ⳁ">>, <<"Ⳃ","ⳃ">>,
           <<"Ⳅ","ⳅ">>, <<"Ⳇ","ⳇ">>, <<"Ⳉ","ⳉ">>, <<"Ⳋ","ⳋ">>, <<"Ⳍ","ⳍ">>, <<"Ⳏ","ⳏ">>,
           <<"Ⳑ","ⳑ">>, <<"Ⳓ","ⳓ">>, <<"Ⳕ","ⳕ">>, <<"Ⳗ","ⳗ">>, <<"Ⳙ","ⳙ">>, <<"Ⳛ","ⳛ">>,
           <<"Ⳝ","ⳝ">>, <<"Ⳟ","ⳟ">>, <<"Ⳡ","ⳡ">>, <<"Ⳣ","ⳣ">>, <<"Ⳬ","ⳬ">>, <<"Ⳮ","ⳮ">>,
           <<"Ⳳ","ⳳ">>, <<"Ꚁ","ꚁ">>, <<"Ꚃ","ꚃ">>, <<"Ꚅ","ꚅ">>, <<"Ꚇ","ꚇ">>, <<"Ꚉ","ꚉ">>,
           <<"Ꚋ","ꚋ">>, <<"Ꚍ","ꚍ">>, <<"Ꚏ","ꚏ">>, <<"Ꚑ","ꚑ">>, <<"Ꚓ","ꚓ">>, <<"Ꚕ","ꚕ">>,
           <<"Ꚗ","ꚗ">>, <<"Ꚙ","ꚙ">>, <<"Ꚛ","ꚛ">>, <<"Ꞁ","ꞁ">>, <<"Ꞃ","ꞃ">>, <<"Ꞅ","ꞅ">>,
           <<"Ꞇ","ꞇ">>, <<"Ꞌ","ꞌ">>, <<"Ꞑ","ꞑ">>, <<"Ꞓ","ꞓ">>, <<"Ꞗ","ꞗ">>, <<"Ꞙ","ꞙ">>,
           <<"Ꞛ","ꞛ">>, <<"Ꞝ","ꞝ">>, <<"Ꞟ","ꞟ">>, <<"Ꞡ","ꞡ">>, <<"Ꞣ","ꞣ">>, <<"Ꞥ","ꞥ">>,
           <<"Ꞧ","ꞧ">>, <<"Ꞩ","ꞩ">>, <<"Ʞ","ʞ">>, <<"Ʇ","ʇ">>, <<"Ʝ","ʝ">>, <<"Ꞵ","ꞵ">>,
           <<"Ꞷ","ꞷ">>, <<"Ꞹ","ꞹ">>, <<"Ꞻ","ꞻ">>, <<"Ꞽ","ꞽ">>, <<"Ꞿ","ꞿ">>, <<"Ꟁ","ꟁ">>,
           <<"Ꟃ","ꟃ">>, <<"Ꞔ","ꞔ">>, <<"Ʂ","ʂ">>, <<"Ᶎ","ᶎ">>, <<"Ꟈ","ꟈ">>, <<"Ꟊ","ꟊ">>,
           <<"Ꟍ","ꟍ">>, <<"꟎","꟏">>, <<"Ꟑ","ꟑ">>, <<"꟒","ꟓ">>, <<"꟔","ꟕ">>, <<"Ꟗ","ꟗ">>,
           <<"Ꟙ","ꟙ">>, <<"Ꟛ","ꟛ">>, <<"Ƛ","ƛ">>, <<"Ꟶ","ꟶ">>}
        named ==
          {
           <<"Ɓ","U+0253">>, <<"Ɔ","U+0254">>, <<"Ɖ","U+0256">>, <<"Ɗ","U+0257">>, <<"Ə","U+0259">>,
           <<"Ɛ","U+025B">>, <<"Ɠ","U+0260">>, <<"Ɣ","U+0263">>, <<"Ɩ","U+0269">>, <<"Ɨ","U+0268">>,
           <<"Ɯ","U+026F">>, <<"Ɲ","U+0272">>, <<"Ɵ","U+0275">>, <<"Ͻ","U+037B">>, <<"Ͼ","U+037C">>,
           <<"Ͽ","U+037D">>, <<"Ⴀ","U+2D00">>, <<"Ⴁ","U+2D01">>, <<"Ⴂ","U+2D02">>, <<"Ⴃ","U+2D03">>,
           <<"Ⴄ","U+2D04">>, <<"Ⴅ","U+2D05">>, <<"Ⴆ","U+2D06">>, <<"Ⴇ","U+2D07">>, <<"Ⴈ","U+2D08">>,
           <<"Ⴉ","U+2D09">>, <<"Ⴊ","U+2D0A">>, <<"Ⴋ","U+2D0B">>, <<"Ⴌ","U+2D0C">>, <<"Ⴍ","U+2D0D">>,
           <<"Ⴎ","U+2D0E">>, <<"Ⴏ","U+2D0F">>, <<"Ⴐ","U+2D10">>, <<"Ⴑ","U+2D11">>, <<"Ⴒ","U+2D12">>,
           <<"Ⴓ","U+2D13">>, <<"Ⴔ","U+2D14">>, <<"Ⴕ","U+2D15">>, <<"Ⴖ","U+2D16">>, <<"Ⴗ","U+2D17">>,
           <<"Ⴘ","U+2D18">>, <<"Ⴙ","U+2D19">>, <<"Ⴚ","U+2D1A">>, <<"Ⴛ","U+2D1B">>, <<"Ⴜ","U+2D1C">>,
           <<"Ⴝ","U+2D1D">>, <<"Ⴞ","U+2D1E">>, <<"Ⴟ","U+2D1F">>, <<"Ⴠ","U+2D20">>, <<"Ⴡ","U+2D21">>,
           <<"Ⴢ","U+2D22">>, <<"Ⴣ","U+2D23">>, <<"Ⴤ","U+2D24">>, <<"Ⴥ","U+2D25">>, <<"Ⴧ","U+2D27">>,
           <<"Ⴭ","U+2D2D">>, <<"Ꭰ","U+AB70">>, <<"Ꭱ","U+AB71">>, <<"Ꭲ","U+AB72">>, <<"Ꭳ","U+AB73">>,
           <<"Ꭴ","U+AB74">>, <<"Ꭵ","U+AB75">>, <<"Ꭶ","U+AB76">>, <<"Ꭷ","U+AB77">>, <<"Ꭸ","U+AB78">>,
           <<"Ꭹ","U+AB79">>, <<"Ꭺ","U+AB7A">>, <<"Ꭻ","U+AB7B">>, <<"Ꭼ","U+AB7C">>, <<"Ꭽ","U+AB7D">>,
           <<"Ꭾ","U+AB7E">>, <<"Ꭿ","U+AB7F">>, <<"Ὰ","U+1F70">>, <<"Ά","U+1F71">>, <<"Ὲ","U+1F72">>,
           <<"Έ","U+1F73">>, <<"Ὴ","U+1F74">>, <<"Ή","U+1F75">>, <<"Ὶ","U+1F76">>, <<"Ί","U+1F77">>,
           <<"Ὺ","U+1F7A">>, <<"Ύ","U+1F7B">>, <<"Ὸ","U+1F78">>, <<"Ό","U+1F79">>, <<"Ὼ","U+1F7C">>,
           <<"Ώ","U+1F7D">>, <<"Ɥ","U+0265">>, <<"Ɦ","U+0266">>, <<"Ɜ","U+025C">>, <<"Ɡ","U+0261">>,
           <<"Ɬ","U+026C">>, <<"Ɪ","U+026A">>, <<"Ꭓ","U+AB53">>, <<"Ɤ","U+0264">>}
        all == pairs \cup named
    IN  [c \in {p[1] : p \in all} |-> (CHOOSE p \in all : p[1] = c)[2]]

\* the characters that decide the lower-case form of U+03A3, by the
\* properties of Unicode 17: those that are skipped on either side of it
\* (Case_Ignorable), and the cased letters among the others (Cased)
SigmaContext ==
    [ignorable |->
          {
           "'", ".", ":", "^", "¨", "­", "¯", "´", "·", "¸", "ʰ", "ʱ", "ʲ", "ʳ", "ʴ", "ʵ", "ʶ",
           "ʷ", "ʸ", "ʹ", "ʺ", "ʻ", "ʼ", "ʽ", "ʾ", "ʿ", "ˀ", "ˁ", "˂", "˃", "˄", "˅", "ˆ", "ˇ",
           "ˈ", "ˉ", "ˊ", "ˋ", "ˌ", "ˍ", "ˎ", "ˏ", "ː", "ˑ", "˒", "˓", "˔", "˕", "˖", "˗", "˘",
           "˙", "˚", "˛", "˜", "˝", "˞", "˟", "ˠ", "ˡ", "ˢ", "ˣ", "ˤ", "˥", "˦", "˧", "˨", "˩",
           "˪", "˫", "ˬ", "˭", "ˮ", "˯", "˰", "˱", "˲", "˳", "˴", "˵", "˶", "˷", "˸", "˹", "˺",
           "˻", "˼", "˽", "˾", "˿", "΄", "΅", "·", "҃", "҄", "҅", "҆", "҇", "҈", "҉", "֑", "֒",
           "֓", "֔", "֕", "֖", "֗", "֘", "֙", "֚", "֛", "֜", "֝", "֞", "֟", "֠", "֡", "֢", "֣",
           "֤", "֥", "֦", "֧", "֨", "֩", "֪", "֫", "֬", "֭", "֮", "֯", "ְ", "ֱ", "ֲ", "ֳ", "ִ",
           "ֵ", "ֶ", "ַ", "ָ", "ֹ", "ֺ", "ֻ", "ּ", "ֽ", "ֿ", "ׁ", "ׂ", "ׄ", "ׅ", "ׇ", "״", "ۖ",
           "ۗ", "ۘ", "ۙ", "ۚ", "ۛ", "ۜ", "۝", "۟", "۠", "ۡ", "ۢ", "ۣ", "ۤ", "ۥ", "ۦ", "ۧ", "ۨ",
           "۪", "۫", "۬", "ۭ", "ަ", "ާ", "ި", "ީ", "ު", "ޫ", "ެ", "ޭ", "ޮ", "ޯ", "ް", "߫", "߬",
           "߭", "߮", "߯", "߰", "߱", "߲", "߳", "ߴ", "ߵ", "ߺ", "߽", "࢈", "࢐", "࢑", "ࢗ", "࢘", "࢙",
           "࢚", "࢛", "࢜", "࢝", "࢞", "࢟", "ࣉ", "࣊", "࣋", "࣌", "࣍", "࣎", "࣏", "࣐", "࣑", "࣒", "࣓",
           "ࣔ", "ࣕ", "ࣖ", "ࣗ", "ࣘ", "ࣙ", "ࣚ", "ࣛ", "ࣜ", "ࣝ", "ࣞ", "ࣟ", "࣠", "࣡", "࣢", "ࣣ", "ࣤ",
           "ࣥ", "ࣦ", "ࣧ", "ࣨ", "ࣩ", "࣪", "࣫", "࣬", "࣭", "࣮", "࣯", "ࣰ", "ࣱ", "ࣲ", "ࣳ", "ࣴ", "ࣵ",
           "ࣶ", "ࣷ", "ࣸ", "ࣹ", "ࣺ", "ࣻ", "ࣼ", "ࣽ", "ࣾ", "ࣿ", "ঁ", "়", "ু", "ূ", "ৃ", "ৄ", "্",
           "ৢ", "ৣ", "৾", "ઁ", "ં", "઼", "ુ", "ૂ", "ૃ", "ૄ", "ૅ", "ે", "ૈ", "્", "ૢ", "ૣ", "ૺ",
           "ૻ", "ૼ", "૽", "૾", "૿", "ஂ", "ீ", "்", "ಁ", "಼", "ಿ", "ೆ", "ೌ", "್", "ೢ", "ೣ", "ඁ",
           "්", "ි", "ී", "ු", "ූ", "ັ", "ິ", "ີ", "ຶ", "ື", "ຸ", "ູ", "຺", "ົ", "ຼ", "ໆ", "່",
           "້", "໊", "໋", "໌", "ໍ", "໎", "ྀ", "ཱྀ", "ྂ", "ྃ", "྄", "྆", "྇", "ྍ", "ྎ", "ྏ", "ྐ",
           "ྑ", "ྒ", "ྒྷ", "ྔ", "ྕ", "ྖ", "ྗ", "ྙ", "ྚ", "ྛ", "ྜ", "ྜྷ", "ྞ", "ྟ", "ྠ", "ྡ", "ྡྷ",
           "ྣ", "ྤ", "ྥ", "ྦ", "ྦྷ", "ྨ", "ྩ", "ྪ", "ྫ", "ྫྷ", "ྭ", "ྮ", "ྯ", "ྰ", "ྱ", "ྲ", "ླ",
           "ྴ", "ྵ", "ྶ", "ྷ", "ྸ", "ྐྵ", "ྺ", "ྻ", "ྼ", "࿆", "ႂ", "ႅ", "ႆ", "ႍ", "ႝ", "ჼ", "឴",
           "឵", "ិ", "ី", "ឹ", "ឺ", "ុ", "ូ", "ួ", "ំ", "៉", "៊", "់", "៌", "៍", "៎", "៏", "័",
           "៑", "្", "៓", "ៗ", "៝", "ᢅ", "ᢆ", "ᢩ", "ᪧ", "᪰", "᪱", "᪲", "᪳", "᪴", "᪵", "᪶", "᪷",
           "᪸", "᪹", "᪺", "᪻", "᪼", "᪽", "᪾", "ᪿ", "ᫀ", "᫁", "᫂", "᫃", "᫄", "᫅", "᫆", "᫇", "᫈",
           "᫉", "᫊", "᫋", "ᫌ", "ᫍ", "ᫎ", "᫏", "᫐", "᫑", "᫒", "᫓", "᫔", "᫕", "᫖", "᫗", "᫘", "᫙",
           "᫚", "᫛", "᫜", "᫝", "᫠", "᫡", "᫢", "᫣", "᫤", "᫥", "᫦", "᫧", "᫨", "᫩", "᫪", "᫫", "ᮀ",
           "ᮁ", "ᮢ", "ᮣ", "ᮤ", "ᮥ", "ᮨ", "ᮩ", "᮫", "ᮬ", "ᮭ", "᯦", "ᯨ", "ᯩ", "ᯭ", "ᯯ", "ᯰ", "ᯱ",
           "᳐", "᳑", "᳒", "᳔", "᳕", "᳖", "᳗", "᳘", "᳙", "᳚", "᳛", "᳜", "᳝", "᳞", "᳟", "᳠", "᳢",
           "᳣", "᳤", "᳥", "᳦", "᳧", "᳨", "᳭", "᳴", "᳸", "᳹", "ᶛ", "ᶜ", "ᶝ", "ᶞ", "ᶟ", "ᶠ", "ᶡ",
           "ᶢ", "ᶣ", "ᶤ", "ᶥ", "ᶦ", "ᶧ", "ᶨ", "ᶩ", "ᶪ", "ᶫ", "ᶬ", "ᶭ", "ᶮ", "ᶯ", "ᶰ", "ᶱ", "ᶲ",
           "ᶳ", "ᶴ", "ᶵ", "ᶶ", "ᶷ", "ᶸ", "ᶹ", "ᶺ", "ᶻ", "ᶼ", "ᶽ", "ᶾ", "ᶿ", "᷀", "᷁", "᷂", "᷃",
           "᷄", "᷅", "᷆", "᷇", "᷈", "᷉", "᷊", "᷋", "᷌", "᷍", "᷎", "᷏", "᷐", "᷑", "᷒", "ᷓ", "ᷔ",
           "ᷕ", "ᷖ", "ᷗ", "ᷘ", "ᷙ", "ᷚ", "ᷛ", "ᷜ", "ᷝ", "ᷞ", "ᷟ", "ᷠ", "ᷡ", "ᷢ", "ᷣ", "ᷤ", "ᷥ",
           "ᷦ", "ᷧ", "ᷨ", "ᷩ", "ᷪ", "ᷫ", "ᷬ", "ᷭ", "ᷮ", "ᷯ", "ᷰ", "ᷱ", "ᷲ", "ᷳ", "ᷴ", "᷵", "᷶",
           "᷷", "᷸", "᷹", "᷺", "᷻", "᷼", "᷽", "᷾", "᷿", "᾽", "᾿", "῀", "῁", "῍", "῎", "῏", "῝",
           "῞", "῟", "῭", "΅", "`", "´", "῾", "ₐ", "ₑ", "ₒ", "ₓ", "ₔ", "ₕ", "ₖ", "ₗ", "ₘ", "ₙ",
           "ₚ", "ₛ", "ₜ", "⃐", "⃑", "⃒", "⃓", "⃔", "⃕", "⃖", "⃗", "⃘", "⃙", "⃚", "⃛", "⃜", "⃝",
           "⃞", "⃟", "⃠", "⃡", "⃢", "⃣", "⃤", "⃥", "⃦", "⃧", "⃨", "⃩", "⃪", "⃫", "⃬", "⃭", "⃮",
           "⃯", "⃰", "⳯", "⳰", "⳱", "ⷠ", "ⷡ", "ⷢ", "ⷣ", "ⷤ", "ⷥ", "ⷦ", "ⷧ", "ⷨ", "ⷩ", "ⷪ", "ⷫ",
           "ⷬ", "ⷭ", "ⷮ", "ⷯ", "ⷰ", "ⷱ", "ⷲ", "ⷳ", "ⷴ", "ⷵ", "ⷶ", "ⷷ", "ⷸ", "ⷹ", "ⷺ", "ⷻ", "ⷼ",
           "ⷽ", "ⷾ", "ⷿ", "゙", "゚", "゛", "゜", "ゝ", "ゞ", "ー", "ヽ", "ヾ", "ꓸ", "ꓹ", "ꓺ", "ꓻ", "ꓼ",
           "ꓽ", "ꚜ", "ꚝ", "ꚞ", "ꚟ", "꛰", "꛱", "ꞈ", "꞉", "꞊", "꟱", "ꟲ", "ꟳ", "ꟴ", "ꟸ", "ꟹ", "꣄",
           "ꣅ", "꣠", "꣡", "꣢", "꣣", "꣤", "꣥", "꣦", "꣧", "꣨", "꣩", "꣪", "꣫", "꣬", "꣭", "꣮", "꣯",
           "꣰", "꣱", "ꣿ", "ꦀ", "ꦁ", "ꦂ", "꦳", "ꦶ", "ꦷ", "ꦸ", "ꦹ", "ꦼ", "ꦽ", "ꧏ", "ꧥ", "ꧦ", "ꪰ",
           "ꪲ", "ꪳ", "ꪴ", "ꪷ", "ꪸ", "ꪾ", "꪿", "꫁", "ꫝ", "ꫬ", "ꫭ", "ꫳ", "ꫴ", "꫶", "ꯥ", "ꯨ", "꯭",
           "﮲", "﮳", "﮴", "﮵", "﮶", "﮷", "﮸", "﮹", "﮺", "﮻", "﮼", "﮽", "﮾", "﮿", "﯀", "﯁", "﯂",
           "﻿", "ﾞ", "ﾟ", "￣", "￹", "￺", "￻"},
     cased |->
          {
           "A", "B", "C", "D", "E", "F", "G", "H", "I", "J", "K", "L", "M", "N", "O", "P", "Q",
           "R", "S", "T", "U", "V", "W", "X", "Y", "Z", "a", "b", "c", "d", "e", "f", "g", "h",
           "i", "j", "k", "l", "m", "n", "o", "p", "q", "r", "s", "t", "u", "v", "w", "x", "y",
           "z", "ª", "µ", "º", "À", "Á", "Â", "Ã", "Ä", "Å", "Æ", "Ç", "È", "É", "Ê", "Ë", "Ì",
           "Í", "Î", "Ï", "Ð", "Ñ", "Ò", "Ó", "Ô", "Õ", "Ö", "Ø", "Ù", "Ú", "Û", "Ü", "Ý", "Þ",
           "ß", "à", "á", "â", "ã", "ä", "å", "æ", "ç", "è", "é", "ê", "ë", "ì", "í", "î", "ï",
           "ð", "ñ", "ò", "ó", "ô", "õ", "ö", "ø", "ù", "ú", "û", "ü", "ý", "þ", "ÿ", "ƀ", "Ɓ",
           "Ƃ", "ƃ", "Ƅ", "ƅ", "Ɔ", "Ƈ", "ƈ", "Ɖ", "Ɗ", "Ƌ", "ƌ", "ƍ", "Ǝ", "Ə", "Ɛ", "Ƒ", "ƒ",
           "Ɠ", "Ɣ", "ƕ", "Ɩ", "Ɨ", "Ƙ", "ƙ", "ƚ", "ƛ", "Ɯ", "Ɲ", "ƞ", "Ɵ", "Ơ", "ơ", "Ƣ", "ƣ",
           "Ƥ", "ƥ", "Ʀ", "Ƨ", "ƨ", "Ʃ", "ƪ", "ƫ", "Ƭ", "ƭ", "Ʈ", "Ư", "ư", "Ʊ", "Ʋ", "Ƴ", "ƴ",
           "Ƶ", "ƶ", "Ʒ", "Ƹ", "ƹ", "ƺ", "Ƽ", "ƽ", "ƾ", "ƿ", "Ǆ", "ǅ", "ǆ", "Ǉ", "ǈ", "ǉ", "Ǌ",
           "ǋ", "ǌ", "Ǎ", "ǎ", "Ǐ", "ǐ", "Ǒ", "ǒ", "Ǔ", "ǔ", "Ǖ", "ǖ", "Ǘ", "ǘ", "Ǚ", "ǚ", "Ǜ",
           "ǜ", "ǝ", "Ǟ", "ǟ", "Ǡ", "ǡ", "Ǣ", "ǣ", "Ǥ", "ǥ", "Ǧ", "ǧ", "Ǩ", "ǩ", "Ǫ", "ǫ", "Ǭ",
           "ǭ", "Ǯ", "ǯ", "ǰ", "Ǳ", "ǲ", "ǳ", "Ǵ", "ǵ", "Ƕ", "Ƿ", "Ǹ", "ǹ", "Ǻ", "ǻ", "Ǽ", "ǽ",
           "Ǿ", "ǿ", "ʀ", "ʁ", "ʂ", "ʃ", "ʄ", "ʅ", "ʆ", "ʇ", "ʈ", "ʉ", "ʊ", "ʋ", "ʌ", "ʍ", "ʎ",
           "ʏ", "ʐ", "ʑ", "ʒ", "ʓ", "ʖ", "ʗ", "ʘ", "ʙ", "ʚ", "ʛ", "ʜ", "ʝ", "ʞ", "ʟ", "ʠ", "ʡ",
           "ʢ", "ʣ", "ʤ", "ʥ", "ʦ", "ʧ", "ʨ", "ʩ", "ʪ", "ʫ", "ʬ", "ʭ", "ʮ", "ʯ", "Ά", "Έ", "Ή",
           "Ί", "Ό", "Ύ", "Ώ", "ΐ", "Α", "Β", "Γ", "Δ", "Ε", "Ζ", "Η", "Θ", "Ι", "Κ", "Λ", "Μ",
           "Ν", "Ξ", "Ο", "Π", "Ρ", "Σ", "Τ", "Υ", "Φ", "Χ", "Ψ", "Ω", "Ϊ", "Ϋ", "ά", "έ", "ή",
           "ί", "ΰ", "α", "β", "γ", "δ", "ε", "ζ", "η", "θ", "ι", "κ", "λ", "μ", "ν", "ξ", "ο",
           "π", "ρ", "ς", "σ", "τ", "υ", "φ", "χ", "ψ", "ω", "ϊ", "ϋ", "ό", "ύ", "ώ", "Ϗ", "ϐ",
           "ϑ", "ϒ", "ϓ", "ϔ", "ϕ", "ϖ", "ϗ", "Ϙ", "ϙ", "Ϛ", "ϛ", "Ϝ", "ϝ", "Ϟ", "ϟ", "Ϡ", "ϡ",
           "Ϣ", "ϣ", "Ϥ", "ϥ", "Ϧ", "ϧ", "Ϩ", "ϩ", "Ϫ", "ϫ", "Ϭ", "ϭ", "Ϯ", "ϯ", "ϰ", "ϱ", "ϲ",
           "ϳ", "ϴ", "ϵ", "Ϸ", "ϸ", "Ϲ", "Ϻ", "ϻ", "ϼ", "Ͻ", "Ͼ", "Ͽ", "Ҁ", "ҁ", "Ҋ", "ҋ", "Ҍ",
           "ҍ", "Ҏ", "ҏ", "Ґ", "ґ", "Ғ", "ғ", "Ҕ", "ҕ", "Җ", "җ", "Ҙ", "ҙ", "Қ", "қ", "Ҝ", "ҝ",
           "Ҟ", "ҟ", "Ҡ", "ҡ", "Ң", "ң", "Ҥ", "ҥ", "Ҧ", "ҧ", "Ҩ", "ҩ", "Ҫ", "ҫ", "Ҭ", "ҭ", "Ү",
           "ү", "Ұ", "ұ", "Ҳ", "ҳ", "Ҵ", "ҵ", "Ҷ", "ҷ", "Ҹ", "ҹ", "Һ", "һ", "Ҽ", "ҽ", "Ҿ", "ҿ",
           "Ӏ", "Ӂ", "ӂ", "Ӄ", "ӄ", "Ӆ", "ӆ", "Ӈ", "ӈ", "Ӊ", "ӊ", "Ӌ", "ӌ", "Ӎ", "ӎ", "ӏ", "Ӑ",
           "ӑ", "Ӓ", "ӓ", "Ӕ", "ӕ", "Ӗ", "ӗ", "Ә", "ә", "Ӛ", "ӛ", "Ӝ", "ӝ", "Ӟ", "ӟ", "Ӡ", "ӡ",
           "Ӣ", "ӣ", "Ӥ", "ӥ", "Ӧ", "ӧ", "Ө", "ө", "Ӫ", "ӫ", "Ӭ", "ӭ", "Ӯ", "ӯ", "Ӱ", "ӱ", "Ӳ",
           "ӳ", "Ӵ", "ӵ", "Ӷ", "ӷ", "Ӹ", "ӹ", "Ӻ", "ӻ", "Ӽ", "ӽ", "Ӿ", "ӿ", "ր", "ց", "ւ", "փ",
           "ք", "օ", "ֆ", "և", "ֈ", "Ⴀ", "Ⴁ", "Ⴂ", "Ⴃ", "Ⴄ", "Ⴅ", "Ⴆ", "Ⴇ", "Ⴈ", "Ⴉ", "Ⴊ", "Ⴋ",
           "Ⴌ", "Ⴍ", "Ⴎ", "Ⴏ", "Ⴐ", "Ⴑ", "Ⴒ", "Ⴓ", "Ⴔ", "Ⴕ", "Ⴖ", "Ⴗ", "Ⴘ", "Ⴙ", "Ⴚ", "Ⴛ", "Ⴜ",
           "Ⴝ", "Ⴞ", "Ⴟ", "Ⴠ", "Ⴡ", "Ⴢ", "Ⴣ", "Ⴤ", "Ⴥ", "Ⴧ", "Ⴭ", "ა", "ბ", "გ", "დ", "ე", "ვ",
           "ზ", "თ", "ი", "კ", "ლ", "მ", "ნ", "ო", "პ", "ჟ", "რ", "ს", "ტ", "უ", "ფ", "ქ", "ღ",
           "ყ", "შ", "ჩ", "ც", "ძ", "წ", "ჭ", "ხ", "ჯ", "ჰ", "ჱ", "ჲ", "ჳ", "ჴ", "ჵ", "ჶ", "ჷ",
           "ჸ", "ჹ", "ჺ", "ჽ", "ჾ", "ჿ", "Ꭰ", "Ꭱ", "Ꭲ", "Ꭳ", "Ꭴ", "Ꭵ", "Ꭶ", "Ꭷ", "Ꭸ", "Ꭹ", "Ꭺ",
           "Ꭻ", "Ꭼ", "Ꭽ", "Ꭾ", "Ꭿ", "Ꮀ", "Ꮁ", "Ꮂ", "Ꮃ", "Ꮄ", "Ꮅ", "Ꮆ", "Ꮇ", "Ꮈ", "Ꮉ", "Ꮊ", "Ꮋ",
           "Ꮌ", "Ꮍ", "Ꮎ", "Ꮏ", "Ꮐ", "Ꮑ", "Ꮒ", "Ꮓ", "Ꮔ", "Ꮕ", "Ꮖ", "Ꮗ", "Ꮘ", "Ꮙ", "Ꮚ", "Ꮛ", "Ꮜ",
           "Ꮝ", "Ꮞ", "Ꮟ", "Ꮠ", "Ꮡ", "Ꮢ", "Ꮣ", "Ꮤ", "Ꮥ", "Ꮦ", "Ꮧ", "Ꮨ", "Ꮩ", "Ꮪ", "Ꮫ", "Ꮬ", "Ꮭ",
           "Ꮮ", "Ꮯ", "Ꮰ", "Ꮱ", "Ꮲ", "Ꮳ", "Ꮴ", "Ꮵ", "Ꮶ", "Ꮷ", "Ꮸ", "Ꮹ", "Ꮺ", "Ꮻ", "Ꮼ", "Ꮽ", "Ꮾ",
           "Ꮿ", "Ᏸ", "Ᏹ", "Ᏺ", "Ᏻ", "Ᏼ", "Ᏽ", "ᏸ", "ᏹ", "ᏺ", "ᏻ", "ᏼ", "ᏽ", "ᲀ", "ᲁ", "ᲂ", "ᲃ",
           "ᲄ", "ᲅ", "ᲆ", "ᲇ", "ᲈ", "Ᲊ", "ᲊ", "Ა", "Ბ", "Გ", "Დ", "Ე", "Ვ", "Ზ", "Თ", "Ი", "Კ",
           "Ლ", "Მ", "Ნ", "Ო", "Პ", "Ჟ", "Რ", "Ს", "Ტ", "Უ", "Ფ", "Ქ", "Ღ", "Ყ", "Შ", "Ჩ", "Ც",
           "Ძ", "Წ", "Ჭ", "Ხ", "Ჯ", "Ჰ", "Ჱ", "Ჲ", "Ჳ", "Ჴ", "Ჵ", "Ჶ", "Ჷ", "Ჸ", "Ჹ", "Ჺ", "Ჽ",
           "Ჾ", "Ჿ", "ᶀ", "ᶁ", "ᶂ", "ᶃ", "ᶄ", "ᶅ", "ᶆ", "ᶇ", "ᶈ", "ᶉ", "ᶊ", "ᶋ", "ᶌ", "ᶍ", "ᶎ",
           "ᶏ", "ᶐ", "ᶑ", "ᶒ", "ᶓ", "ᶔ", "ᶕ", "ᶖ", "ᶗ", "ᶘ", "ᶙ", "ᶚ", "Ẁ", "ẁ", "Ẃ", "ẃ", "Ẅ",
           "ẅ", "Ẇ", "ẇ", "Ẉ", "ẉ", "Ẋ", "ẋ", "Ẍ", "ẍ", "Ẏ", "ẏ", "Ẑ", "ẑ", "Ẓ", "ẓ", "Ẕ", "ẕ",
           "ẖ", "ẗ", "ẘ", "ẙ", "ẚ", "ẛ", "ẜ", "ẝ", "ẞ", "ẟ", "Ạ", "ạ", "Ả", "ả", "Ấ", "ấ", "Ầ",
           "ầ", "Ẩ", "ẩ", "Ẫ", "ẫ", "Ậ", "ậ", "Ắ", "ắ", "Ằ", "ằ", "Ẳ", "ẳ", "Ẵ", "ẵ", "Ặ", "ặ",
           "Ẹ", "ẹ", "Ẻ", "ẻ", "Ẽ", "ẽ", "Ế", "ế", "Ề", "ề", "Ể", "ể", "Ễ", "ễ", "Ệ", "ệ", "Ỉ",
           "ỉ", "Ị", "ị", "Ọ", "ọ", "Ỏ", "ỏ", "Ố", "ố", "Ồ", "ồ", "Ổ", "ổ", "Ỗ", "ỗ", "Ộ", "ộ",
           "Ớ", "ớ", "Ờ", "ờ", "Ở", "ở", "Ỡ", "ỡ", "Ợ", "ợ", "Ụ", "ụ", "Ủ", "ủ", "Ứ", "ứ", "Ừ",
           "ừ", "Ử", "ử", "Ữ", "ữ", "Ự", "ự", "Ỳ", "ỳ", "Ỵ", "ỵ", "Ỷ", "ỷ", "Ỹ", "ỹ", "Ỻ", "ỻ",
           "Ỽ", "ỽ", "Ỿ", "ỿ", "ᾀ", "ᾁ", "ᾂ", "ᾃ", "ᾄ", "ᾅ", "ᾆ", "ᾇ", "ᾈ", "ᾉ", "ᾊ", "ᾋ", "ᾌ",
           "ᾍ", "ᾎ", "ᾏ", "ᾐ", "ᾑ", "ᾒ", "ᾓ", "ᾔ", "ᾕ", "ᾖ", "ᾗ", "ᾘ", "ᾙ", "ᾚ", "ᾛ", "ᾜ", "ᾝ",
           "ᾞ", "ᾟ", "ᾠ", "ᾡ", "ᾢ", "ᾣ", "ᾤ", "ᾥ", "ᾦ", "ᾧ", "ᾨ", "ᾩ", "ᾪ", "ᾫ", "ᾬ", "ᾭ", "ᾮ",
           "ᾯ", "ᾰ", "ᾱ", "ᾲ", "ᾳ", "ᾴ", "ᾶ", "ᾷ", "Ᾰ", "Ᾱ", "Ὰ", "Ά", "ᾼ", "ι", "ῂ", "ῃ", "ῄ",
           "ῆ", "ῇ", "Ὲ", "Έ", "Ὴ", "Ή", "ῌ", "ῐ", "ῑ", "ῒ", "ΐ", "ῖ", "ῗ", "Ῐ", "Ῑ", "Ὶ", "Ί",
           "ῠ", "ῡ", "ῢ", "ΰ", "ῤ", "ῥ", "ῦ", "ῧ", "Ῠ", "Ῡ", "Ὺ", "Ύ", "Ῥ", "ῲ", "ῳ", "ῴ", "ῶ",
           "ῷ", "Ὸ", "Ό", "Ὼ", "Ώ", "ῼ", "Ↄ", "ↄ", "Ⓐ", "Ⓑ", "Ⓒ", "Ⓓ", "Ⓔ", "Ⓕ", "Ⓖ", "Ⓗ", "Ⓘ",
           "Ⓙ", "Ⓚ", "Ⓛ", "Ⓜ", "Ⓝ", "Ⓞ", "Ⓟ", "Ⓠ", "Ⓡ", "Ⓢ", "Ⓣ", "Ⓤ", "Ⓥ", "Ⓦ", "Ⓧ", "Ⓨ", "Ⓩ",
           "ⓐ", "ⓑ", "ⓒ", "ⓓ", "ⓔ", "ⓕ", "ⓖ", "ⓗ", "ⓘ", "ⓙ", "ⓚ", "ⓛ", "ⓜ", "ⓝ", "ⓞ", "ⓟ", "ⓠ",
           "ⓡ", "ⓢ", "ⓣ", "ⓤ", "ⓥ", "ⓦ", "ⓧ", "ⓨ", "ⓩ", "Ⲁ", "ⲁ", "Ⲃ", "ⲃ", "Ⲅ", "ⲅ", "Ⲇ", "ⲇ",
           "Ⲉ", "ⲉ", "Ⲋ", "ⲋ", "Ⲍ", "ⲍ", "Ⲏ", "ⲏ", "Ⲑ", "ⲑ", "Ⲓ", "ⲓ", "Ⲕ", "ⲕ", "Ⲗ", "ⲗ", "Ⲙ",
           "ⲙ", "Ⲛ", "ⲛ", "Ⲝ", "ⲝ", "Ⲟ", "ⲟ", "Ⲡ", "ⲡ", "Ⲣ", "ⲣ", "Ⲥ", "ⲥ", "Ⲧ", "ⲧ", "Ⲩ", "ⲩ",
           "Ⲫ", "ⲫ", "Ⲭ", "ⲭ", "Ⲯ", "ⲯ", "Ⲱ", "ⲱ", "Ⲳ", "ⲳ", "Ⲵ", "ⲵ", "Ⲷ", "ⲷ", "Ⲹ", "ⲹ", "Ⲻ",
           "ⲻ", "Ⲽ", "ⲽ", "Ⲿ", "ⲿ", "Ⳁ", "ⳁ", "Ⳃ", "ⳃ", "Ⳅ", "ⳅ", "Ⳇ", "ⳇ", "Ⳉ", "ⳉ", "Ⳋ", "ⳋ",
           "Ⳍ", "ⳍ", "Ⳏ", "ⳏ", "Ⳑ", "ⳑ", "Ⳓ", "ⳓ", "Ⳕ", "ⳕ", "Ⳗ", "ⳗ", "Ⳙ", "ⳙ", "Ⳛ", "ⳛ", "Ⳝ",
           "ⳝ", "Ⳟ", "ⳟ", "Ⳡ", "ⳡ", "Ⳣ", "ⳣ", "ⳤ", "Ⳬ", "ⳬ", "Ⳮ", "ⳮ", "Ⳳ", "ⳳ", "Ꚁ", "ꚁ", "Ꚃ",
           "ꚃ", "Ꚅ", "ꚅ", "Ꚇ", "ꚇ", "Ꚉ", "ꚉ", "Ꚋ", "ꚋ", "Ꚍ", "ꚍ", "Ꚏ", "ꚏ", "Ꚑ", "ꚑ", "Ꚓ", "ꚓ",
           "Ꚕ", "ꚕ", "Ꚗ", "ꚗ", "Ꚙ", "ꚙ", "Ꚛ", "ꚛ", "Ꞁ", "ꞁ", "Ꞃ", "ꞃ", "Ꞅ", "ꞅ", "Ꞇ", "ꞇ", "Ꞌ",
           "ꞌ", "Ɥ", "ꞎ", "Ꞑ", "ꞑ", "Ꞓ", "ꞓ", "ꞔ", "ꞕ", "Ꞗ", "ꞗ", "Ꞙ", "ꞙ", "Ꞛ", "ꞛ", "Ꞝ", "ꞝ",
           "Ꞟ", "ꞟ", "Ꞡ", "ꞡ", "Ꞣ", "ꞣ", "Ꞥ", "ꞥ", "Ꞧ", "ꞧ", "Ꞩ", "ꞩ", "Ɦ", "Ɜ", "Ɡ", "Ɬ", "Ɪ",
           "ꞯ", "Ʞ", "Ʇ", "Ʝ", "Ꭓ", "Ꞵ", "ꞵ", "Ꞷ", "ꞷ", "Ꞹ", "ꞹ", "Ꞻ", "ꞻ", "Ꞽ", "ꞽ", "Ꞿ", "ꞿ",
           "Ꟁ", "ꟁ", "Ꟃ", "ꟃ", "Ꞔ", "Ʂ", "Ᶎ", "Ꟈ", "ꟈ", "Ꟊ", "ꟊ", "Ɤ", "Ꟍ", "ꟍ", "꟎", "꟏", "Ꟑ",
           "ꟑ", "꟒", "ꟓ", "꟔", "ꟕ", "Ꟗ", "ꟗ", "Ꟙ", "ꟙ", "Ꟛ", "ꟛ", "Ƛ", "Ꟶ", "ꟶ", "ꟺ", "ꮀ", "ꮁ",
           "ꮂ", "ꮃ", "ꮄ", "ꮅ", "ꮆ", "ꮇ", "ꮈ", "ꮉ", "ꮊ", "ꮋ", "ꮌ", "ꮍ", "ꮎ", "ꮏ", "ꮐ", "ꮑ", "ꮒ",
           "ꮓ", "ꮔ", "ꮕ", "ꮖ", "ꮗ", "ꮘ", "ꮙ", "ꮚ", "ꮛ", "ꮜ", "ꮝ", "ꮞ", "ꮟ", "ꮠ", "ꮡ", "ꮢ", "ꮣ",
           "ꮤ", "ꮥ", "ꮦ", "ꮧ", "ꮨ", "ꮩ", "ꮪ", "ꮫ", "ꮬ", "ꮭ", "ꮮ", "ꮯ", "ꮰ", "ꮱ", "ꮲ", "ꮳ", "ꮴ",
           "ꮵ", "ꮶ", "ꮷ", "ꮸ", "ꮹ", "ꮺ", "ꮻ", "ꮼ", "ꮽ", "ꮾ", "ꮿ"}]

\* String.prototype.toLowerCase: U+03A3 becomes U+03C2 when the nearest
\* character before it that is not skipped is a cased letter and the nearest
\* one after it is not, and U+03C3 otherwise; every other character becomes
\* its lower-case form
ToLowerCase(s) ==
    LET kept(set)  == {j \in set : s[j] \notin SigmaContext.ignorable}
        final(i)   == LET before == kept(1..(i - 1))
                          after  == kept((i + 1)..Len(s))
                      IN  /\ before # {}
                          /\ s[CHOOSE j \in before : \A k \in before : j >= k]
                                \in SigmaContext.cased
                          /\ \/ after = {}
                             \/ s[CHOOSE j \in after : \A k \in after : j <= k]
                                   \notin SigmaContext.cased
    IN  [i \in 1..Len(s) |->
            IF s[i] = "Σ" THEN (IF final(i) THEN "ς" ELSE "σ")
            ELSE IF s[i] \in DOMAIN UpperToLower THEN UpperToLower[s[i]]
            ELSE s[i]]

\* true iff lit occurs in s at position i (1-based)
LitAt(s, i, lit) ==
    /\ i >= 1
    /\ i + Len(lit) - 1 <= Len(s)
    /\ SubSeq(s, i, i + Len(lit) - 1) = lit

\* String.prototype.includes
Includes(s, sub) == \E i \in 1..(Len(s) + 1) : LitAt(s, i, sub)

\* String.prototype.startsWith
StartsWith(s, prefix) == LitAt(s, 1, prefix)

\* String.prototype.trim
Trim(s) ==
    LET keep == {i \in 1..Len(s) : s[i] \notin SpaceChars}
    IN  IF keep = {} THEN <<>>
        ELSE LET lo == CHOOSE i \in keep : \A j \in keep : i <= j
                 hi == CHOOSE i \in keep : \A j \in keep : i >= j
             IN  SubSeq(s, lo, hi)

\* String.prototype.split for a one-character separator
RECURSIVE Split(_, _)
Split(s, sep) ==
    LET at == {i \in 1..Len(s) : s[i] = sep}
    IN  IF at = {} THEN <<s>>
        ELSE LET i == CHOOSE k \in at : \A j \in at : k <= j
             IN  <<SubSeq(s, 1, i - 1)>> \o Split(SubSeq(s, i + 1, Len(s)), sep)

\* The first position j >= i of s whose character is not in class, or Len(s)+1:
\* where a greedy  class*  that starts at i stops.
SkipClass(s, i, class) ==
    LET stops == {j \in i..(Len(s) + 1) : j = Len(s) + 1 \/ s[j] \notin class}
    IN  CHOOSE j \in stops : \A k \in stops : j <= k

\* The first position j >= i of s whose character is in class, or Len(s)+1:
\* where a greedy  [^class]*  that starts at i stops.
SkipUntil(s, i, class) ==
    LET stops == {j \in i..(Len(s) + 1) : j = Len(s) + 1 \/ s[j] \in class}
    IN  CHOOSE j \in stops : \A k \in stops : j <= k

\* The least element of a non-empty set of positions (the leftmost match).
MinOf(S) == CHOOSE i \in S : \A j \in S : i <= j

-----------------------------------------------------------------------------
(* Utterances of VARZService (the texts handed to speak) *)

\* the texts VARZService hands to speak
Msg ==
    [\* Speech recognition is not supported in this browser. Please use Chrome or Edge.
     Unsupported |->
        <<"S","p","e","e","c","h"," ","r","e","c","o","g","n","i","t","i","o","n"," ","i","s"," ",
        "n","o","t"," ","s","u","p","p","o","r","t","e","d"," ","i","n"," ","t","h","i","s"," ",
        "b","r","o","w","s","e","r","."," ","P","l","e","a","s","e"," ","u","s","e"," ","C","h",
        "r","o","m","e"," ","o","r"," ","E","d","g","e",".">>,
     \* Already listening for voice input.
     AlreadyListening |->
        <<"A","l","r","e","a","d","y"," ","l","i","s","t","e","n","i","n","g"," ","f","o","r"," ",
        "v","o","i","c","e"," ","i","n","p","u","t",".">>,
     \* Listening for your voice command. Please speak now.
     Listening |->
        <<"L","i","s","t","e","n","i","n","g"," ","f","o","r"," ","y","o","u","r"," ","v","o","i",
        "c","e"," ","c","o","m","m","a","n","d","."," ","P","l","e","a","s","e"," ","s","p","e",
        "a","k"," ","n","o","w",".">>,
     \* I heard: 
     HeardPrefix |-> <<"I"," ","h","e","a","r","d",":"," ">>,
     \* . Processing your request.
     HeardSuffix |->
        <<"."," ","P","r","o","c","e","s","s","i","n","g"," ","y","o","u","r"," ","r","e","q","u",
        "e","s","t",".">>,
     \* Speech recognition error: 
     RecognitionErrorPrefix |->
        <<"S","p","e","e","c","h"," ","r","e","c","o","g","n","i","t","i","o","n"," ","e","r","r",
        "o","r",":"," ">>,
     \* . Please try again.
     RecognitionErrorSuffix |->
        <<"."," ","P","l","e","a","s","e"," ","t","r","y"," ","a","g","a","i","n",".">>,
     \* Stopped listening for voice input.
     Stopped |->
        <<"S","t","o","p","p","e","d"," ","l","i","s","t","e","n","i","n","g"," ","f","o","r"," ",
        "v","o","i","c","e"," ","i","n","p","u","t",".">>,
     \* Running code.
     RunningCode |-> <<"R","u","n","n","i","n","g"," ","c","o","d","e",".">>,
     \* Saving file.
     SavingFile |-> <<"S","a","v","i","n","g"," ","f","i","l","e",".">>,
     \* Clearing editor.
     ClearingEditor |-> <<"C","l","e","a","r","i","n","g"," ","e","d","i","t","o","r",".">>,
     \* Command not recognized.
     NotRecognized |->
        <<"C","o","m","m","a","n","d"," ","n","o","t"," ","r","e","c","o","g","n","i","z","e","d",
        ".">>,
     \* Reading and explaining the code...
     ReadingAndExplaining |->
        <<"R","e","a","d","i","n","g"," ","a","n","d"," ","e","x","p","l","a","i","n","i","n","g",
        " ","t","h","e"," ","c","o","d","e",".",".",".">>,
     \* I'll generate code for you: 
     GeneratePrefix |->
        <<"I","'","l","l"," ","g","e","n","e","r","a","t","e"," ","c","o","d","e"," ","f","o","r",
        " ","y","o","u",":"," ">>,
     \* I didn't understand that command. Please try saying "read code", "explain this code", "run code", "save file", or "clear editor".
     DidntUnderstand |->
        <<"I"," ","d","i","d","n","'","t"," ","u","n","d","e","r","s","t","a","n","d"," ","t","h",
        "a","t"," ","c","o","m","m","a","n","d","."," ","P","l","e","a","s","e"," ","t","r","y",
        " ","s","a","y","i","n","g"," ","\"","r","e","a","d"," ","c","o","d","e","\"",","," ",
        "\"","e","x","p","l","a","i","n"," ","t","h","i","s"," ","c","o","d","e","\"",","," ",
        "\"","r","u","n"," ","c","o","d","e","\"",","," ","\"","s","a","v","e"," ","f","i","l",
        "e","\"",","," ","o","r"," ","\"","c","l","e","a","r"," ","e","d","i","t","o","r","\"",
        ".">>,
     \* No active editor found. Please open a file first.
     NoActiveEditor |->
        <<"N","o"," ","a","c","t","i","v","e"," ","e","d","i","t","o","r"," ","f","o","u","n","d",
        "."," ","P","l","e","a","s","e"," ","o","p","e","n"," ","a"," ","f","i","l","e"," ","f",
        "i","r","s","t",".">>,
     \* No code found. Please open a file with code or select some text.
     NoCodeFound |->
        <<"N","o"," ","c","o","d","e"," ","f","o","u","n","d","."," ","P","l","e","a","s","e"," ",
        "o","p","e","n"," ","a"," ","f","i","l","e"," ","w","i","t","h"," ","c","o","d","e"," ",
        "o","r"," ","s","e","l","e","c","t"," ","s","o","m","e"," ","t","e","x","t",".">>,
     \* Error reading code. Please try again.
     ErrorReadingCode |->
        <<"E","r","r","o","r"," ","r","e","a","d","i","n","g"," ","c","o","d","e","."," ","P","l",
        "e","a","s","e"," ","t","r","y"," ","a","g","a","i","n",".">>,
     \* This code appears to be empty or contains only comments.
     EmptyOrComments |->
        <<"T","h","i","s"," ","c","o","d","e"," ","a","p","p","e","a","r","s"," ","t","o"," ","b",
        "e"," ","e","m","p","t","y"," ","o","r"," ","c","o","n","t","a","i","n","s"," ","o","n",
        "l","y"," ","c","o","m","m","e","n","t","s",".">>]

-----------------------------------------------------------------------------
(* Utterances of VARZContribution (the toolbar handlers) *)

\* the texts the toolbar handlers of VARZContribution hand to speak
ToolbarMsg ==
    [\* Voice input activated. Please speak your command.
     VoiceInputActivated |->
        <<"V","o","i","c","e"," ","i","n","p","u","t"," ","a","c","t","i","v","a","t","e","d",".",
        " ","P","l","e","a","s","e"," ","s","p","e","a","k"," ","y","o","u","r"," ","c","o","m",
        "m","a","n","d",".">>,
     \* Running code...
     RunningCodeDots |-> <<"R","u","n","n","i","n","g"," ","c","o","d","e",".",".",".">>,
     \* Saving file...
     SavingFileDots |-> <<"S","a","v","i","n","g"," ","f","i","l","e",".",".",".">>,
     \* File saved successfully.
     FileSaved |->
        <<"F","i","l","e"," ","s","a","v","e","d"," ","s","u","c","c","e","s","s","f","u","l","l",
        "y",".">>,
     \* Clearing editor...
     ClearingEditorDots |->
        <<"C","l","e","a","r","i","n","g"," ","e","d","i","t","o","r",".",".",".">>,
     \* Editor cleared.
     EditorCleared |-> <<"E","d","i","t","o","r"," ","c","l","e","a","r","e","d",".">>,
     \* No active editor found. Please open a file first.
     NoActiveEditor |->
        <<"N","o"," ","a","c","t","i","v","e"," ","e","d","i","t","o","r"," ","f","o","u","n","d","."," ","P","l","e","a","s","e"," ","o","p","e","n"," ","a"," ","f","i","l","e"," ","f","i","r","s","t",".">>,
     \* No code found. Please open a file with code or select some text.
     NoCodeFound |->
        <<"N","o"," ","c","o","d","e"," ","f","o","u","n","d","."," ","P","l","e","a","s","e"," ","o","p","e","n"," ","a"," ","f","i","l","e"," ","w","i","t","h"," ","c","o","d","e"," ","o","r"," ","s","e","l","e","c","t"," ","s","o","m","e"," ","t","e","x","t",".">>,
     \* Error reading code. Please try again.
     ErrorReadingCode |->
        <<"E","r","r","o","r"," ","r","e","a","d","i","n","g"," ","c","o","d","e","."," ","P","l","e","a","s","e"," ","t","r","y"," ","a","g","a","i","n",".">>]

\* the texts the command handlers of varzCommands.ts hand to speak
CommandMsg ==
    [\* VARZ is working! This is a test message.
     Working |->
        <<"V","A","R","Z"," ","i","s"," ","w","o","r","k","i","n","g","!"," ","T","h","i","s"," ","i","s"," ","a"," ","t","e","s","t"," ","m","e","s","s","a","g","e",".">>,
     \* Voice input activated. Please speak your command.
     VoiceInputActivated |->
        <<"V","o","i","c","e"," ","i","n","p","u","t"," ","a","c","t","i","v","a","t","e","d","."," ","P","l","e","a","s","e"," ","s","p","e","a","k"," ","y","o","u","r"," ","c","o","m","m","a","n","d",".">>,
     \* Reading code from active editor.
     ReadingFromEditor |->
        <<"R","e","a","d","i","n","g"," ","c","o","d","e"," ","f","r","o","m"," ","a","c","t","i","v","e"," ","e","d","i","t","o","r",".">>,
     \* Running code...
     RunningCodeDots |-> <<"R","u","n","n","i","n","g"," ","c","o","d","e",".",".",".">>,
     \* Saving file...
     SavingFileDots |-> <<"S","a","v","i","n","g"," ","f","i","l","e",".",".",".">>,
     \* Clearing editor...
     ClearingEditorDots |->
        <<"C","l","e","a","r","i","n","g"," ","e","d","i","t","o","r",".",".",".">>]

\* the texts the handlers of VARZWidget hand to speak
WidgetMsg ==
    [\* No code to read. Please open a file with code.
     NoCodeToRead |->
        <<"N","o"," ","c","o","d","e"," ","t","o"," ","r","e","a","d","."," ","P","l","e","a","s","e"," ","o","p","e","n"," ","a"," ","f","i","l","e"," ","w","i","t","h"," ","c","o","d","e",".">>,
     \* No active editor found. Please open a file first.
     NoActiveEditor |->
        <<"N","o"," ","a","c","t","i","v","e"," ","e","d","i","t","o","r"," ","f","o","u","n","d","."," ","P","l","e","a","s","e"," ","o","p","e","n"," ","a"," ","f","i","l","e"," ","f","i","r","s","t",".">>,
     \* Running code...
     RunningCodeDots |-> <<"R","u","n","n","i","n","g"," ","c","o","d","e",".",".",".">>,
     \* Code execution started.
     CodeExecutionStarted |->
        <<"C","o","d","e"," ","e","x","e","c","u","t","i","o","n"," ","s","t","a","r","t","e","d",".">>,
     \* Failed to run code. Please check your code for errors.
     FailedToRun |->
        <<"F","a","i","l","e","d"," ","t","o"," ","r","u","n"," ","c","o","d","e","."," ","P","l","e","a","s","e"," ","c","h","e","c","k"," ","y","o","u","r"," ","c","o","d","e"," ","f","o","r"," ","e","r","r","o","r","s",".">>,
     \* Saving file...
     SavingFileDots |-> <<"S","a","v","i","n","g"," ","f","i","l","e",".",".",".">>,
     \* File saved successfully.
     FileSaved |->
        <<"F","i","l","e"," ","s","a","v","e","d"," ","s","u","c","c","e","s","s","f","u","l","l","y",".">>,
     \* Failed to save file.
     FailedToSave |->
        <<"F","a","i","l","e","d"," ","t","o"," ","s","a","v","e"," ","f","i","l","e",".">>,
     \* Clearing editor...
     ClearingEditorDots |->
        <<"C","l","e","a","r","i","n","g"," ","e","d","i","t","o","r",".",".",".">>,
     \* Editor cleared.
     EditorCleared |-> <<"E","d","i","t","o","r"," ","c","l","e","a","r","e","d",".">>,
     \* No active editor to clear.
     NoEditorToClear |->
        <<"N","o"," ","a","c","t","i","v","e"," ","e","d","i","t","o","r"," ","t","o"," ","c","l","e","a","r",".">>,
     \* VARZ toolbar activated.
     ToolbarActivated |->
        <<"V","A","R","Z"," ","t","o","o","l","b","a","r"," ","a","c","t","i","v","a","t","e","d",".">>,
     \* VARZ toolbar hidden.
     ToolbarHidden |->
        <<"V","A","R","Z"," ","t","o","o","l","b","a","r"," ","h","i","d","d","e","n",".">>]

-----------------------------------------------------------------------------
(* The pieces of the sentence explainCode builds *)

\* the pieces of the sentence explainCode builds
Txt ==
    [\* This 
     This |-> <<"T","h","i","s"," ">>,
     \*  code 
     Code |-> <<" ","c","o","d","e"," ">>,
     \* This code 
     ThisCode |-> <<"T","h","i","s"," ","c","o","d","e"," ">>,
     \* prints "
     Prints |-> <<"p","r","i","n","t","s"," ","\"">>,
     \* " 
     QuoteSpace |-> <<"\""," ">>,
     \* "
     Quote |-> <<"\"">>,
     \*  times
     Times |-> <<" ","t","i","m","e","s">>,
     \* defines a function called 
     DefinesFunction |->
        <<"d","e","f","i","n","e","s"," ","a"," ","f","u","n","c","t","i","o","n"," ","c","a","l",
        "l","e","d"," ">>,
     \*  that returns a value
     ReturnsValue |->
        <<" ","t","h","a","t"," ","r","e","t","u","r","n","s"," ","a"," ","v","a","l","u","e">>,
     \* creates and uses variables
     CreatesVariables |->
        <<"c","r","e","a","t","e","s"," ","a","n","d"," ","u","s","e","s"," ","v","a","r","i","a",
        "b","l","e","s">>,
     \* contains conditional logic
     ConditionalLogic |->
        <<"c","o","n","t","a","i","n","s"," ","c","o","n","d","i","t","i","o","n","a","l"," ","l",
        "o","g","i","c">>,
     \* imports external modules
     ImportsModules |->
        <<"i","m","p","o","r","t","s"," ","e","x","t","e","r","n","a","l"," ","m","o","d","u","l",
        "e","s">>,
     \* performs various operations
     VariousOperations |->
        <<"p","e","r","f","o","r","m","s"," ","v","a","r","i","o","u","s"," ","o","p","e","r","a",
        "t","i","o","n","s">>,
     \*  using a loop
     UsingLoop |-> <<" ","u","s","i","n","g"," ","a"," ","l","o","o","p">>,
     \*  with conditional statements
     WithConditionals |->
        <<" ","w","i","t","h"," ","c","o","n","d","i","t","i","o","n","a","l"," ","s","t","a","t",
        "e","m","e","n","t","s">>,
     \*  with variable assignments
     WithVariables |->
        <<" ","w","i","t","h"," ","v","a","r","i","a","b","l","e"," ","a","s","s","i","g","n","m",
        "e","n","t","s">>,
     \* .
     Period |-> <<".">>,
     \* multiple
     Multiple |-> <<"m","u","l","t","i","p","l","e">>,
     \* something
     Something |-> <<"s","o","m","e","t","h","i","n","g">>,
     \* unknown
     Unknown |-> <<"u","n","k","n","o","w","n">>]

-----------------------------------------------------------------------------
(* Keywords and tokens the source searches for *)

\* the keywords processVoiceCommand, executeCommand and generateCodeFromSpeech look for
Kw ==
    [\* run
     run |-> <<"r","u","n">>,
     \* execute
     execute |-> <<"e","x","e","c","u","t","e">>,
     \* save
     save |-> <<"s","a","v","e">>,
     \* clear
     clear |-> <<"c","l","e","a","r">>,
     \* delete
     delete |-> <<"d","e","l","e","t","e">>,
     \* read
     read |-> <<"r","e","a","d">>,
     \* explain
     explain |-> <<"e","x","p","l","a","i","n">>,
     \* generate
     generate |-> <<"g","e","n","e","r","a","t","e">>,
     \* create
     create |-> <<"c","r","e","a","t","e">>,
     \* write
     write |-> <<"w","r","i","t","e">>,
     \* what does this code do
     what_does_this_code_do |->
        <<"w","h","a","t"," ","d","o","e","s"," ","t","h","i","s"," ","c","o","d","e"," ","d","o">>,
     \* what does this do
     what_does_this_do |->
        <<"w","h","a","t"," ","d","o","e","s"," ","t","h","i","s"," ","d","o">>,
     \* explain this code
     explain_this_code |->
        <<"e","x","p","l","a","i","n"," ","t","h","i","s"," ","c","o","d","e">>,
     \* tell me about this code
     tell_me_about_this_code |->
        <<"t","e","l","l"," ","m","e"," ","a","b","o","u","t"," ","t","h","i","s"," ","c","o","d",
        "e">>,
     \* summarize this code
     summarize_this_code |->
        <<"s","u","m","m","a","r","i","z","e"," ","t","h","i","s"," ","c","o","d","e">>,
     \* function
     function |-> <<"f","u","n","c","t","i","o","n">>,
     \* create a function
     create_a_function |->
        <<"c","r","e","a","t","e"," ","a"," ","f","u","n","c","t","i","o","n">>,
     \* add
     add |-> <<"a","d","d">>,
     \* sum
     sum |-> <<"s","u","m">>,
     \* multiply
     multiply |-> <<"m","u","l","t","i","p","l","y">>,
     \* times
     times |-> <<"t","i","m","e","s">>,
     \* hello
     hello |-> <<"h","e","l","l","o">>,
     \* greet
     greet |-> <<"g","r","e","e","t">>,
     \* variable
     variable |-> <<"v","a","r","i","a","b","l","e">>,
     \* let
     let |-> <<"l","e","t">>,
     \* const
     const |-> <<"c","o","n","s","t">>,
     \* number
     number |-> <<"n","u","m","b","e","r">>,
     \* integer
     integer |-> <<"i","n","t","e","g","e","r">>,
     \* string
     string |-> <<"s","t","r","i","n","g">>,
     \* text
     text |-> <<"t","e","x","t">>,
     \* array
     array |-> <<"a","r","r","a","y">>,
     \* list
     list |-> <<"l","i","s","t">>,
     \* loop
     loop |-> <<"l","o","o","p">>,
     \* for
     for |-> <<"f","o","r">>,
     \* while
     while |-> <<"w","h","i","l","e">>,
     \* each
     each |-> <<"e","a","c","h">>,
     \* if
     if |-> <<"i","f">>,
     \* condition
     condition |-> <<"c","o","n","d","i","t","i","o","n">>,
     \* print
     print |-> <<"p","r","i","n","t">>,
     \* console
     console |-> <<"c","o","n","s","o","l","e">>,
     \* log
     log |-> <<"l","o","g">>,
     \* say
     say |-> <<"s","a","y">>]

\* the tokens the line tests and the extractors look for
Tok ==
    [\* for 
     for_ |-> <<"f","o","r"," ">>,
     \* while 
     while_ |-> <<"w","h","i","l","e"," ">>,
     \* do 
     do_ |-> <<"d","o"," ">>,
     \* console.log
     console_log |-> <<"c","o","n","s","o","l","e",".","l","o","g">>,
     \* print(
     print_paren |-> <<"p","r","i","n","t","(">>,
     \* System.out.println
     System_out_println |->
        <<"S","y","s","t","e","m",".","o","u","t",".","p","r","i","n","t","l","n">>,
     \* printf
     printf |-> <<"p","r","i","n","t","f">>,
     \* cout
     cout |-> <<"c","o","u","t">>,
     \* echo
     echo |-> <<"e","c","h","o">>,
     \* if 
     if_ |-> <<"i","f"," ">>,
     \* else if
     else_if |-> <<"e","l","s","e"," ","i","f">>,
     \* else
     else |-> <<"e","l","s","e">>,
     \* import 
     import_ |-> <<"i","m","p","o","r","t"," ">>,
     \* require(
     require_paren |-> <<"r","e","q","u","i","r","e","(">>,
     \* #include
     include |-> <<"#","i","n","c","l","u","d","e">>,
     \* using 
     using_ |-> <<"u","s","i","n","g"," ">>,
     \* return
     return |-> <<"r","e","t","u","r","n">>,
     \* =
     eq |-> <<"=">>,
     \* ==
     eqeq |-> <<"=","=">>,
     \* !=
     neq |-> <<"!","=">>,
     \* >=
     geq |-> <<">","=">>,
     \* <=
     leq |-> <<"<","=">>,
     \* =>
     arrow |-> <<"=",">">>,
     \* //
     slashslash |-> <<"/","/">>,
     \* #
     hash |-> <<"#">>,
     \* /*
     slashstar |-> <<"/","*">>,
     \* <!--
     htmlcomment |-> <<"<","!","-","-">>,
     \* *
     star |-> <<"*">>,
     \* --
     dashdash |-> <<"-","-">>,
     \* function
     function |-> <<"f","u","n","c","t","i","o","n">>,
     \* def
     def |-> <<"d","e","f">>,
     \* const
     const |-> <<"c","o","n","s","t">>,
     \* public
     public |-> <<"p","u","b","l","i","c">>,
     \* private
     private |-> <<"p","r","i","v","a","t","e">>,
     \* protected
     protected |-> <<"p","r","o","t","e","c","t","e","d">>,
     \* static
     static |-> <<"s","t","a","t","i","c">>,
     \* void
     void |-> <<"v","o","i","d">>,
     \* int
     int |-> <<"i","n","t">>,
     \* string
     string |-> <<"s","t","r","i","n","g">>,
     \* bool
     bool |-> <<"b","o","o","l">>,
     \* float
     float |-> <<"f","l","o","a","t">>,
     \* range
     range |-> <<"r","a","n","g","e">>,
     \* for
     for |-> <<"f","o","r">>,
     \* print
     print |-> <<"p","r","i","n","t">>,
     \* ++)
     plusplus_paren |-> <<"+","+",")">>,
     \* while
     while |-> <<"w","h","i","l","e">>]

-----------------------------------------------------------------------------
(* Regular-expression building blocks.  A capture is an option: <<>> when  *)
(* the pattern does not match, <<text>> when it does.                      *)

\* '.' of a JavaScript regular expression matches anything but a line terminator
LineTerminators == {"\n", "\r"}

CharIn(s, i, class) == i >= 1 /\ i <= Len(s) /\ s[i] \in class

CharIs(s, i, c) == i >= 1 /\ i <= Len(s) /\ s[i] = c

\* the first capture of a list of options tried in order, <<>> if none matched
FirstSome(options) ==
    LET hit == {k \in 1..Len(options) : options[k] # <<>>}
    IN  IF hit = {} THEN <<>> ELSE options[MinOf(hit)]

\*  kw\s+(\w+)  matched at position i
KeywordNameAt(s, i, kw) ==
    LET a == i + Len(kw)
        b == SkipClass(s, a, SpaceChars)
        c == SkipClass(s, b, WordChars)
    IN  IF LitAt(s, i, kw) /\ CharIn(s, a, SpaceChars) /\ CharIn(s, b, WordChars)
        THEN <<SubSeq(s, b, c - 1)>> ELSE <<>>

\*  const\s+(\w+)\s*=.*=>  matched at position i
ArrowNameAt(s, i) ==
    LET a == i + Len(Tok.const)
        b == SkipClass(s, a, SpaceChars)
        c == SkipClass(s, b, WordChars)
        d == SkipClass(s, c, SpaceChars)
    IN  IF /\ LitAt(s, i, Tok.const) /\ CharIn(s, a, SpaceChars)
           /\ CharIn(s, b, WordChars) /\ CharIs(s, d, "=")
           /\ \E q \in (d + 1)..Len(s) :
                 /\ LitAt(s, q, Tok.arrow)
                 /\ \A r \in (d + 1)..(q - 1) : s[r] \notin LineTerminators
        THEN <<SubSeq(s, b, c - 1)>> ELSE <<>>

\*  \s*(?:void|int|string|bool|\w+)\s+(\w+)\s*\(  matched at position a
\* (each literal type followed by \s+ is also a whole \w+ followed by \s+)
TypedNameFrom(s, a) ==
    LET b == SkipClass(s, a, SpaceChars)
        c == SkipClass(s, b, WordChars)
        d == SkipClass(s, c, SpaceChars)
        e == SkipClass(s, d, WordChars)
        f == SkipClass(s, e, SpaceChars)
    IN  IF /\ CharIn(s, b, WordChars) /\ CharIn(s, c, SpaceChars)
           /\ CharIn(s, d, WordChars) /\ CharIs(s, f, "(")
        THEN <<SubSeq(s, d, e - 1)>> ELSE <<>>

Modifiers == <<Tok.public, Tok.private, Tok.protected, Tok.static>>

\*  (?:public|private|protected|static)?\s*(?:void|int|string|bool|\w+)\s+(\w+)\s*\(
\* matched at position i: the modifiers in order, then no modifier
TypedNameAt(s, i) ==
    FirstSome([k \in 1..(Len(Modifiers) + 1) |->
        IF k <= Len(Modifiers)
        THEN IF LitAt(s, i, Modifiers[k])
             THEN TypedNameFrom(s, i + Len(Modifiers[k])) ELSE <<>>
        ELSE TypedNameFrom(s, i)])

\*  (\w+)\s*\([^)]*\)\s*{  matched at position i
BareNameAt(s, i) ==
    LET a == SkipClass(s, i, WordChars)
        b == SkipClass(s, a, SpaceChars)
        c == SkipUntil(s, b + 1, {")"})
        d == SkipClass(s, c + 1, SpaceChars)
    IN  IF /\ CharIn(s, i, WordChars) /\ CharIs(s, b, "(")
           /\ CharIs(s, c, ")") /\ CharIs(s, d, "{")
        THEN <<SubSeq(s, i, a - 1)>> ELSE <<>>

\*  (public|private|protected|static)\s+\w+\s+\w+\s*\(  matched at position i
IsModifiedMethodAt(s, i) ==
    \E k \in 1..Len(Modifiers) :
        LET a == i + Len(Modifiers[k])
            b == SkipClass(s, a, SpaceChars)
            c == SkipClass(s, b, WordChars)
            d == SkipClass(s, c, SpaceChars)
            e == SkipClass(s, d, WordChars)
            f == SkipClass(s, e, SpaceChars)
        IN  /\ LitAt(s, i, Modifiers[k]) /\ CharIn(s, a, SpaceChars)
            /\ CharIn(s, b, WordChars) /\ CharIn(s, c, SpaceChars)
            /\ CharIn(s, d, WordChars) /\ CharIs(s, f, "(")

ReturnTypes == {Tok.void, Tok.int, Tok.string, Tok.bool, Tok.float}

\*  (void|int|string|bool|float)\s+\w+\s*\(  matched at position i
IsTypedFunctionAt(s, i) ==
    \E t \in ReturnTypes :
        LET a == i + Len(t)
            b == SkipClass(s, a, SpaceChars)
            c == SkipClass(s, b, WordChars)
            d == SkipClass(s, c, SpaceChars)
        IN  /\ LitAt(s, i, t) /\ CharIn(s, a, SpaceChars)
            /\ CharIn(s, b, WordChars) /\ CharIs(s, d, "(")

-----------------------------------------------------------------------------
(* LineClassifier: the per-line tests of VARZService.                      *)

\* Mutant of isComment: a line that opens with '--' is not a comment.
isComment_NoDashDash(line) ==
    \/ StartsWith(line, Tok.slashslash)
    \/ StartsWith(line, Tok.hash)
    \/ StartsWith(line, Tok.slashstar)
    \/ StartsWith(line, Tok.htmlcomment)
    \/ StartsWith(line, Tok.star)

isComment(line) ==
    \/ StartsWith(line, Tok.slashslash)
    \/ StartsWith(line, Tok.hash)
    \/ StartsWith(line, Tok.slashstar)
    \/ StartsWith(line, Tok.htmlcomment)
    \/ StartsWith(line, Tok.star)
    \/ StartsWith(line, Tok.dashdash)

isLoopStatement(line) ==
    Includes(line, Tok.for_) \/ Includes(line, Tok.while_) \/ Includes(line, Tok.do_)

isConsoleOutput(line) ==
    \/ Includes(line, Tok.console_log)
    \/ Includes(line, Tok.print_paren)
    \/ Includes(line, Tok.System_out_println)
    \/ Includes(line, Tok.printf)
    \/ Includes(line, Tok.cout)
    \/ Includes(line, Tok.echo)

isConditionalStatement(line) ==
    Includes(line, Tok.if_) \/ Includes(line, Tok.else_if) \/ Includes(line, Tok.else)

isImportStatement(line) ==
    \/ Includes(line, Tok.import_)
    \/ Includes(line, Tok.require_paren)
    \/ Includes(line, Tok.include)
    \/ Includes(line, Tok.using_)

isVariableAssignment(line) ==
    /\ Includes(line, Tok.eq)
    /\ ~Includes(line, Tok.eqeq)
    /\ ~Includes(line, Tok.neq)
    /\ ~Includes(line, Tok.geq)
    /\ ~Includes(line, Tok.leq)
    /\ ~Includes(line, Tok.arrow)

\* patterns.some(pattern => pattern.test(line)) over the six patterns
isFunctionDefinition(line) ==
    \E i \in 1..Len(line) :
        \/ KeywordNameAt(line, i, Tok.function) # <<>>
        \/ KeywordNameAt(line, i, Tok.def) # <<>>
        \/ ArrowNameAt(line, i) # <<>>
        \/ IsModifiedMethodAt(line, i)
        \/ IsTypedFunctionAt(line, i)
        \/ BareNameAt(line, i) # <<>>

\* the five alternatives of funcMatch tried in order at position i
FuncMatchAt(line, i) ==
    FirstSome(<<KeywordNameAt(line, i, Tok.function),
                KeywordNameAt(line, i, Tok.def),
                ArrowNameAt(line, i),
                TypedNameAt(line, i),
                BareNameAt(line, i)>>)

\* funcInfo.name of analyzeFunctionDefinition: <<name>> at the leftmost match,
\* <<>> when the method returns null
analyzeFunctionDefinition(line) ==
    LET hit == {i \in 1..Len(line) : FuncMatchAt(line, i) # <<>>}
    IN  IF hit = {} THEN <<>> ELSE FuncMatchAt(line, MinOf(hit))

-----------------------------------------------------------------------------
(* The extractors of explainCode.                                          *)

\*  range\s*\(\s*(\d+)\s*\)  matched at position i
RangeAt(s, i) ==
    LET a == SkipClass(s, i + Len(Tok.range), SpaceChars)
        b == SkipClass(s, a + 1, SpaceChars)
        c == SkipClass(s, b, Digits)
        d == SkipClass(s, c, SpaceChars)
    IN  IF /\ LitAt(s, i, Tok.range) /\ CharIs(s, a, "(")
           /\ CharIn(s, b, Digits) /\ CharIs(s, d, ")")
        THEN <<SubSeq(s, b, c - 1)>> ELSE <<>>

\*  for\s*\(\s*\w+\s*=\s*0\s*;\s*\w+\s*<\s*(\d+)\s*;\s*\w+\+\+\)  matched at position i
JsForAt(s, i) ==
    LET a == SkipClass(s, i + Len(Tok.for), SpaceChars)
        b == SkipClass(s, a + 1, SpaceChars)
        c == SkipClass(s, b, WordChars)
        d == SkipClass(s, c, SpaceChars)
        e == SkipClass(s, d + 1, SpaceChars)
        f == SkipClass(s, e + 1, SpaceChars)
        g == SkipClass(s, f + 1, SpaceChars)
        h == SkipClass(s, g, WordChars)
        k == SkipClass(s, h, SpaceChars)
        l == SkipClass(s, k + 1, SpaceChars)
        m == SkipClass(s, l, Digits)
        n == SkipClass(s, m, SpaceChars)
        o == SkipClass(s, n + 1, SpaceChars)
        p == SkipClass(s, o, WordChars)
    IN  IF /\ LitAt(s, i, Tok.for) /\ CharIs(s, a, "(")
           /\ CharIn(s, b, WordChars) /\ CharIs(s, d, "=")
           /\ CharIs(s, e, "0") /\ CharIs(s, f, ";")
           /\ CharIn(s, g, WordChars) /\ CharIs(s, k, "<")
           /\ CharIn(s, l, Digits) /\ CharIs(s, n, ";")
           /\ CharIn(s, o, WordChars) /\ LitAt(s, p, Tok.plusplus_paren)
        THEN <<SubSeq(s, l, m - 1)>> ELSE <<>>

\*  (\d+)  matched at position i
NumberAt(s, i) ==
    IF CharIn(s, i, Digits) THEN <<SubSeq(s, i, SkipClass(s, i, Digits) - 1)>> ELSE <<>>

\*  call\s*\(\s*['"]([^'"]+)['"]\s*\)  matched at position i
PrintCallAt(s, i, call) ==
    LET a == SkipClass(s, i + Len(call), SpaceChars)
        b == SkipClass(s, a + 1, SpaceChars)
        c == SkipUntil(s, b + 1, QuoteChars)
        d == SkipClass(s, c + 1, SpaceChars)
    IN  IF /\ LitAt(s, i, call) /\ CharIs(s, a, "(")
           /\ CharIn(s, b, QuoteChars) /\ c > b + 1
           /\ CharIn(s, c, QuoteChars) /\ CharIs(s, d, ")")
        THEN <<SubSeq(s, b + 1, c - 1)>> ELSE <<>>

\*  ['"]([^'"]+)['"]  matched at position i
QuotedAt(s, i) ==
    LET c == SkipUntil(s, i + 1, QuoteChars)
    IN  IF CharIn(s, i, QuoteChars) /\ c > i + 1 /\ CharIn(s, c, QuoteChars)
        THEN <<SubSeq(s, i + 1, c - 1)>> ELSE <<>>

\* String.prototype.match for a pattern without the g flag: the capture of the
\* leftmost match, given the capture at each position
Leftmost(s, At(_, _)) ==
    LET hit == {i \in 1..Len(s) : At(s, i) # <<>>}
    IN  IF hit = {} THEN <<>> ELSE At(s, MinOf(hit))

\* a variant of LoopCountOfLine that takes the first number of the line before
\* it looks for range(N)
LoopCountOfLine_NumberFirst(line) ==
    LET trimmed == Trim(line)
    IN  FirstSome(<<Leftmost(trimmed, NumberAt),
                    Leftmost(trimmed, RangeAt),
                    Leftmost(trimmed, JsForAt)>>)

\* what one line contributes to extractLoopCount: range(N), then the counting
\* for loop, then the first number
LoopCountOfLine(line) ==
    LET trimmed == Trim(line)
    IN  FirstSome(<<Leftmost(trimmed, RangeAt),
                    Leftmost(trimmed, JsForAt),
                    Leftmost(trimmed, NumberAt)>>)

extractLoopCount(lines) ==
    LET found == FirstSome([k \in 1..Len(lines) |-> LoopCountOfLine(lines[k])])
    IN  IF found = <<>> THEN Txt.Multiple ELSE found[1]

\* what one line contributes to extractPrintMessage
PrintMessageOfLine(line) ==
    LET trimmed == Trim(line)
    IN  FirstSome(<<Leftmost(trimmed, LAMBDA s, i : PrintCallAt(s, i, Tok.print)),
                    Leftmost(trimmed, LAMBDA s, i : PrintCallAt(s, i, Tok.console_log)),
                    Leftmost(trimmed, LAMBDA s, i : PrintCallAt(s, i, Tok.System_out_println)),
                    Leftmost(trimmed, QuotedAt)>>)

extractPrintMessage(lines) ==
    LET found == FirstSome([k \in 1..Len(lines) |-> PrintMessageOfLine(lines[k])])
    IN  IF found = <<>> THEN Txt.Something ELSE found[1]

-----------------------------------------------------------------------------
(* StructureAnalyzer: analyzeCodeStructure.                                *)

EmptyAnalysis ==
    [hasFunction |-> FALSE, hasLoop |-> FALSE, hasPrint |-> FALSE,
     hasVariable |-> FALSE, hasConditional |-> FALSE, hasReturn |-> FALSE,
     hasImport |-> FALSE, functionName |-> <<>>, loopType |-> <<>>,
     printMessages |-> <<>>]

\* a variant of AnalyzeLine whose hasLoop says whether this line is a loop
AnalyzeLine_LoopOfThisLine(analysis, line) ==
    LET trimmed  == Trim(line)
        isFunc   == isFunctionDefinition(trimmed)
        funcInfo == analyzeFunctionDefinition(trimmed)
        isLoop   == isLoopStatement(trimmed)
        isPrint  == isConsoleOutput(trimmed)
        message  == extractPrintMessage(<<trimmed>>)
    IN  [hasFunction    |-> analysis.hasFunction \/ isFunc,
         functionName   |-> IF isFunc /\ funcInfo # <<>> THEN funcInfo[1]
                            ELSE analysis.functionName,
         hasLoop        |-> isLoop,
         loopType       |-> IF isLoop /\ Includes(trimmed, Tok.for_) THEN Tok.for
                            ELSE IF isLoop /\ Includes(trimmed, Tok.while_) THEN Tok.while
                            ELSE analysis.loopType,
         hasPrint       |-> analysis.hasPrint \/ isPrint,
         printMessages  |-> IF isPrint /\ message # <<>>
                            THEN Append(analysis.printMessages, message)
                            ELSE analysis.printMessages,
         hasVariable    |-> analysis.hasVariable \/ isVariableAssignment(trimmed),
         hasConditional |-> analysis.hasConditional \/ isConditionalStatement(trimmed),
         hasReturn      |-> analysis.hasReturn \/ Includes(trimmed, Tok.return),
         hasImport      |-> analysis.hasImport \/ isImportStatement(trimmed)]

\* the body of the for loop of analyzeCodeStructure: one line folded into analysis
AnalyzeLine(analysis, line) ==
    LET trimmed  == Trim(line)
        isFunc   == isFunctionDefinition(trimmed)
        funcInfo == analyzeFunctionDefinition(trimmed)
        isLoop   == isLoopStatement(trimmed)
        isPrint  == isConsoleOutput(trimmed)
        message  == extractPrintMessage(<<trimmed>>)
    IN  [hasFunction    |-> analysis.hasFunction \/ isFunc,
         functionName   |-> IF isFunc /\ funcInfo # <<>> THEN funcInfo[1]
                            ELSE analysis.functionName,
         hasLoop        |-> analysis.hasLoop \/ isLoop,
         loopType       |-> IF isLoop /\ Includes(trimmed, Tok.for_) THEN Tok.for
                            ELSE IF isLoop /\ Includes(trimmed, Tok.while_) THEN Tok.while
                            ELSE analysis.loopType,
         hasPrint       |-> analysis.hasPrint \/ isPrint,
         printMessages  |-> IF isPrint /\ message # <<>>
                            THEN Append(analysis.printMessages, message)
                            ELSE analysis.printMessages,
         hasVariable    |-> analysis.hasVariable \/ isVariableAssignment(trimmed),
         hasConditional |-> analysis.hasConditional \/ isConditionalStatement(trimmed),
         hasReturn      |-> analysis.hasReturn \/ Includes(trimmed, Tok.return),
         hasImport      |-> analysis.hasImport \/ isImportStatement(trimmed)]

\* the analysis after the first n lines
RECURSIVE AnalyzePrefix(_, _)
AnalyzePrefix(lines, n) ==
    IF n = 0 THEN EmptyAnalysis ELSE AnalyzeLine(AnalyzePrefix(lines, n - 1), lines[n])

analyzeCodeStructure(lines) == AnalyzePrefix(lines, Len(lines))

-----------------------------------------------------------------------------
(* ExplanationComposer: explainCode.  An absent language (undefined) is    *)
(* the empty string: both are falsy in  language && language !== 'unknown' *)

\* code.split('\n').filter(line => line.trim().length > 0), then
\* lines.filter(line => !this.isComment(line.trim()))
NonEmptyLines(code) ==
    LET lines == SelectSeq(Split(code, "\n"), LAMBDA line : Len(Trim(line)) > 0)
    IN  SelectSeq(lines, LAMBDA line : ~isComment(Trim(line)))

\* Mutant of SummaryPrefix: 'unknown' is named like any other language.
SummaryPrefix_NamesUnknown(language) ==
    IF language # <<>>
    THEN Txt.This \o language \o Txt.Code
    ELSE Txt.ThisCode

\* the opening of the sentence (varzService.ts 139-143)
SummaryPrefix(language) ==
    IF language # <<>> /\ language # Txt.Unknown
    THEN Txt.This \o language \o Txt.Code
    ELSE Txt.ThisCode

\* the "main functionality summary" (varzService.ts 146-166)
\* Mutant of MainClause: a function definition is tested before loop-and-print.
MainClause_FunctionFirst(analysis, nonEmptyLines) ==
    IF analysis.hasFunction
    THEN Txt.DefinesFunction \o analysis.functionName
            \o (IF analysis.hasReturn THEN Txt.ReturnsValue ELSE <<>>)
    ELSE IF analysis.hasLoop /\ analysis.hasPrint
    THEN Txt.Prints \o extractPrintMessage(nonEmptyLines) \o Txt.QuoteSpace
            \o extractLoopCount(nonEmptyLines) \o Txt.Times
    ELSE IF analysis.hasPrint
    THEN Txt.Prints \o extractPrintMessage(nonEmptyLines) \o Txt.Quote
    ELSE IF analysis.hasVariable THEN Txt.CreatesVariables
    ELSE IF analysis.hasConditional THEN Txt.ConditionalLogic
    ELSE IF analysis.hasImport THEN Txt.ImportsModules
    ELSE Txt.VariousOperations

\* a variant of MainClause whose function clause never says that a value is
\* returned
MainClause_NoReturnClause(analysis, nonEmptyLines) ==
    IF analysis.hasLoop /\ analysis.hasPrint
    THEN Txt.Prints \o extractPrintMessage(nonEmptyLines) \o Txt.QuoteSpace
            \o extractLoopCount(nonEmptyLines) \o Txt.Times
    ELSE IF analysis.hasFunction
    THEN Txt.DefinesFunction \o analysis.functionName
    ELSE IF analysis.hasPrint
    THEN Txt.Prints \o extractPrintMessage(nonEmptyLines) \o Txt.Quote
    ELSE IF analysis.hasVariable THEN Txt.CreatesVariables
    ELSE IF analysis.hasConditional THEN Txt.ConditionalLogic
    ELSE IF analysis.hasImport THEN Txt.ImportsModules
    ELSE Txt.VariousOperations

MainClause(analysis, nonEmptyLines) ==
    IF analysis.hasLoop /\ analysis.hasPrint
    THEN Txt.Prints \o extractPrintMessage(nonEmptyLines) \o Txt.QuoteSpace
            \o extractLoopCount(nonEmptyLines) \o Txt.Times
    ELSE IF analysis.hasFunction
    THEN Txt.DefinesFunction \o analysis.functionName
            \o (IF analysis.hasReturn THEN Txt.ReturnsValue ELSE <<>>)
    ELSE IF analysis.hasPrint
    THEN Txt.Prints \o extractPrintMessage(nonEmptyLines) \o Txt.Quote
    ELSE IF analysis.hasVariable THEN Txt.CreatesVariables
    ELSE IF analysis.hasConditional THEN Txt.ConditionalLogic
    ELSE IF analysis.hasImport THEN Txt.ImportsModules
    ELSE Txt.VariousOperations

\* Mutant of ContextClauses: the conditional qualifier does not look at hasLoop.
ContextClauses_ConditionalAlways(analysis) ==
    (IF analysis.hasLoop /\ ~analysis.hasPrint THEN Txt.UsingLoop ELSE <<>>)
    \o (IF analysis.hasConditional THEN Txt.WithConditionals ELSE <<>>)
    \o (IF analysis.hasVariable /\ ~analysis.hasFunction THEN Txt.WithVariables ELSE <<>>)

\* the "additional context" (varzService.ts 169-177)
ContextClauses(analysis) ==
    (IF analysis.hasLoop /\ ~analysis.hasPrint THEN Txt.UsingLoop ELSE <<>>)
    \o (IF analysis.hasConditional /\ ~analysis.hasLoop THEN Txt.WithConditionals ELSE <<>>)
    \o (IF analysis.hasVariable /\ ~analysis.hasFunction THEN Txt.WithVariables ELSE <<>>)

\* a variant of explainCode without the early return for a sample that has no
\* line left
explainCode_NoEmptyCheck(code, language) ==
    LET nonEmptyLines == NonEmptyLines(code)
        analysis      == analyzeCodeStructure(nonEmptyLines)
    IN  SummaryPrefix(language) \o MainClause(analysis, nonEmptyLines)
            \o ContextClauses(analysis) \o Txt.Period

explainCode(code, language) ==
    LET nonEmptyLines == NonEmptyLines(code)
        analysis      == analyzeCodeStructure(nonEmptyLines)
    IN  IF Len(nonEmptyLines) = 0 THEN Msg.EmptyOrComments
        ELSE SummaryPrefix(language) \o MainClause(analysis, nonEmptyLines)
                \o ContextClauses(analysis) \o Txt.Period

\* readCode: the utterances it hands to speak
readCode(code, language) == <<explainCode(code, language)>>

-----------------------------------------------------------------------------
(* executeCommand: the utterances it speaks and the string it returns.     *)

\* a variant of executeCommand that tests 'save' before 'run'
executeCommand_SaveFirst(command) ==
    LET cmd == Trim(ToLowerCase(command))
    IN  IF Includes(cmd, Kw.save) THEN [spoken |-> <<Msg.SavingFile>>, result |-> Kw.save]
        ELSE IF Includes(cmd, Kw.run) THEN [spoken |-> <<Msg.RunningCode>>, result |-> Kw.run]
        ELSE IF Includes(cmd, Kw.clear)
        THEN [spoken |-> <<Msg.ClearingEditor>>, result |-> Kw.clear]
        ELSE [spoken |-> <<Msg.NotRecognized>>, result |-> <<>>]

executeCommand(command) ==
    LET cmd == Trim(ToLowerCase(command))
    IN  IF Includes(cmd, Kw.run) THEN [spoken |-> <<Msg.RunningCode>>, result |-> Kw.run]
        ELSE IF Includes(cmd, Kw.save) THEN [spoken |-> <<Msg.SavingFile>>, result |-> Kw.save]
        ELSE IF Includes(cmd, Kw.clear)
        THEN [spoken |-> <<Msg.ClearingEditor>>, result |-> Kw.clear]
        ELSE [spoken |-> <<Msg.NotRecognized>>, result |-> <<>>]

-----------------------------------------------------------------------------
(* The templates and keywords of generateCodeFromSpeech *)

\* the templates of generateCodeFromSpeech
Tpl ==
    [\* function 
     Function |-> <<"f","u","n","c","t","i","o","n"," ">>,
     \* (a, b) {\n    return a + b;\n}
     SumBody |->
        <<"(","a",","," ","b",")"," ","{","\n"," "," "," "," ","r","e","t","u","r","n"," ","a"," ",
        "+"," ","b",";","\n","}">>,
     \* (a, b) {\n    return a * b;\n}
     ProductBody |->
        <<"(","a",","," ","b",")"," ","{","\n"," "," "," "," ","r","e","t","u","r","n"," ","a"," ",
        "*"," ","b",";","\n","}">>,
     \* (name) {\n    return "Hello, " + name + "!";\n}
     GreetBody |->
        <<"(","n","a","m","e",")"," ","{","\n"," "," "," "," ","r","e","t","u","r","n"," ","\"","H",
        "e","l","l","o",","," ","\""," ","+"," ","n","a","m","e"," ","+"," ","\"","!","\"",";",
        "\n","}">>,
     \* () {\n    // Your code here\n    return null;\n}
     StubBody |->
        <<"(",")"," ","{","\n"," "," "," "," ","/","/"," ","Y","o","u","r"," ","c","o","d","e"," ",
        "h","e","r","e","\n"," "," "," "," ","r","e","t","u","r","n"," ","n","u","l","l",";","\n",
        "}">>,
     \* let 
     Let |-> <<"l","e","t"," ">>,
     \*  = 0;
     Zero |-> <<" ","="," ","0",";">>,
     \*  = "";
     EmptyString |-> <<" ","="," ","\"","\"",";">>,
     \*  = [];
     EmptyArray |-> <<" ","="," ","[","]",";">>,
     \*  = null;
     Null |-> <<" ","="," ","n","u","l","l",";">>,
     \* for (let item of array) {\n    console.log(item);\n}
     ForEach |->
        <<"f","o","r"," ","(","l","e","t"," ","i","t","e","m"," ","o","f"," ","a","r","r","a","y",
        ")"," ","{","\n"," "," "," "," ","c","o","n","s","o","l","e",".","l","o","g","(","i","t",
        "e","m",")",";","\n","}">>,
     \* while (condition) {\n    // Your code here\n}
     While |->
        <<"w","h","i","l","e"," ","(","c","o","n","d","i","t","i","o","n",")"," ","{","\n"," "," ",
        " "," ","/","/"," ","Y","o","u","r"," ","c","o","d","e"," ","h","e","r","e","\n","}">>,
     \* for (let i = 0; i < 10; i++) {\n    console.log(i);\n}
     CountingLoop |->
        <<"f","o","r"," ","(","l","e","t"," ","i"," ","="," ","0",";"," ","i"," ","<"," ","1","0",
        ";"," ","i","+","+",")"," ","{","\n"," "," "," "," ","c","o","n","s","o","l","e",".","l",
        "o","g","(","i",")",";","\n","}">>,
     \* if (condition) {\n    // Your code here\n} else {\n    // Alternative code\n}
     IfElse |->
        <<"i","f"," ","(","c","o","n","d","i","t","i","o","n",")"," ","{","\n"," "," "," "," ","/",
        "/"," ","Y","o","u","r"," ","c","o","d","e"," ","h","e","r","e","\n","}"," ","e","l","s",
        "e"," ","{","\n"," "," "," "," ","/","/"," ","A","l","t","e","r","n","a","t","i","v","e",
        " ","c","o","d","e","\n","}">>,
     \* console.log("
     LogOpen |-> <<"c","o","n","s","o","l","e",".","l","o","g","(","\"">>,
     \* ");
     LogClose |-> <<"\"",")",";">>,
     \* // Generated code for: 
     DefaultHead |->
        <<"/","/"," ","G","e","n","e","r","a","t","e","d"," ","c","o","d","e"," ","f","o","r",":",
        " ">>,
     \* \n// Please modify as needed\nconsole.log("Hello, World!");
     DefaultTail |->
        <<"\n","/","/"," ","P","l","e","a","s","e"," ","m","o","d","i","f","y"," ","a","s"," ","n",
        "e","e","d","e","d","\n","c","o","n","s","o","l","e",".","l","o","g","(","\"","H","e","l",
        "l","o",","," ","W","o","r","l","d","!","\"",")",";">>,
     \* myFunction
     DefaultFunctionName |-> <<"m","y","F","u","n","c","t","i","o","n">>,
     \* myVariable
     DefaultVariableName |-> <<"m","y","V","a","r","i","a","b","l","e">>,
     \* Hello, World!
     DefaultMessage |-> <<"H","e","l","l","o",","," ","W","o","r","l","d","!">>]

\*  (?:kw1|kw2|...)\s+(\w+)  with the i flag, matched at position i: the keywords
\* are compared with the lower-cased text, the capture is taken from the original
AnyKeywordNameAt(s, i, kws) ==
    FirstSome([k \in 1..Len(kws) |->
        IF KeywordNameAt(ToLowerCase(s), i, kws[k]) # <<>>
        THEN KeywordNameAt(s, i, SubSeq(s, i, i + Len(kws[k]) - 1))
        ELSE <<>>])

\* a variant of FunctionNameAt that takes a name only after 'function'
FunctionNameAt_FunctionOnly(s, i) == AnyKeywordNameAt(s, i, <<Kw.function>>)

FunctionNameAt(s, i) == AnyKeywordNameAt(s, i, <<Kw.function, Kw.create>>)

VariableNameAt(s, i) == AnyKeywordNameAt(s, i, <<Kw.variable, Kw.let, Kw.const>>)

\*  kw\s+(.+)  matched at position i: \s+ is greedy and gives characters back
\* until  .+  has one character that is not a line terminator to start on
KeywordRestAt(s, i, kw) ==
    LET a      == i + Len(kw)
        b      == SkipClass(s, a, SpaceChars)
        starts == {k \in (a + 1)..b : k <= Len(s) /\ s[k] \notin LineTerminators}
    IN  IF LitAt(ToLowerCase(s), i, kw) /\ CharIn(s, a, SpaceChars) /\ starts # {}
        THEN LET k == CHOOSE x \in starts : \A y \in starts : x >= y
             IN  <<SubSeq(s, k, SkipUntil(s, k, LineTerminators) - 1)>>
        ELSE <<>>

\*  (?:print|log|say)\s+(.+)  with the i flag, matched at position i
MessageAt(s, i) ==
    FirstSome(<<KeywordRestAt(s, i, Kw.print), KeywordRestAt(s, i, Kw.log),
                KeywordRestAt(s, i, Kw.say)>>)

extractFunctionName(description) ==
    LET match == Leftmost(description, FunctionNameAt)
    IN  IF match # <<>> THEN match[1] ELSE Tpl.DefaultFunctionName

extractVariableName(description) ==
    LET match == Leftmost(description, VariableNameAt)
    IN  IF match # <<>> THEN match[1] ELSE Tpl.DefaultVariableName

extractMessage(description) ==
    LET match == Leftmost(description, MessageAt)
    IN  IF match # <<>> THEN Trim(match[1]) ELSE Tpl.DefaultMessage

\* a variant of generateCodeFromSpeech that tests the variable keywords before
\* the function keywords
generateCodeFromSpeech_VariableFirst(description) ==
    LET lowerDesc == ToLowerCase(description)
        has(kw)   == Includes(lowerDesc, kw)
    IN  IF has(Kw.variable) \/ has(Kw.let) \/ has(Kw.const)
        THEN LET varName == extractVariableName(description)
             IN  IF has(Kw.number) \/ has(Kw.integer) THEN Tpl.Let \o varName \o Tpl.Zero
                 ELSE IF has(Kw.string) \/ has(Kw.text)
                 THEN Tpl.Let \o varName \o Tpl.EmptyString
                 ELSE IF has(Kw.array) \/ has(Kw.list)
                 THEN Tpl.Let \o varName \o Tpl.EmptyArray
                 ELSE Tpl.Let \o varName \o Tpl.Null
        ELSE IF has(Kw.function) \/ has(Kw.create_a_function)
        THEN LET funcName == extractFunctionName(description)
             IN  IF has(Kw.add) \/ has(Kw.sum)
                 THEN Tpl.Function \o funcName \o Tpl.SumBody
                 ELSE IF has(Kw.multiply) \/ has(Kw.times)
                 THEN Tpl.Function \o funcName \o Tpl.ProductBody
                 ELSE IF has(Kw.hello) \/ has(Kw.greet)
                 THEN Tpl.Function \o funcName \o Tpl.GreetBody
                 ELSE Tpl.Function \o funcName \o Tpl.StubBody
        ELSE IF has(Kw.loop) \/ has(Kw.for) \/ has(Kw.while)
        THEN IF has(Kw.for) /\ has(Kw.each) THEN Tpl.ForEach
             ELSE IF has(Kw.while) THEN Tpl.While
             ELSE Tpl.CountingLoop
        ELSE IF has(Kw.if) \/ has(Kw.condition) THEN Tpl.IfElse
        ELSE IF has(Kw.print) \/ has(Kw.console) \/ has(Kw.log)
        THEN Tpl.LogOpen \o extractMessage(description) \o Tpl.LogClose
        ELSE Tpl.DefaultHead \o description \o Tpl.DefaultTail

generateCodeFromSpeech(description) ==
    LET lowerDesc == ToLowerCase(description)
        has(kw)   == Includes(lowerDesc, kw)
    IN  IF has(Kw.function) \/ has(Kw.create_a_function)
        THEN LET funcName == extractFunctionName(description)
             IN  IF has(Kw.add) \/ has(Kw.sum)
                 THEN Tpl.Function \o funcName \o Tpl.SumBody
                 ELSE IF has(Kw.multiply) \/ has(Kw.times)
                 THEN Tpl.Function \o funcName \o Tpl.ProductBody
                 ELSE IF has(Kw.hello) \/ has(Kw.greet)
                 THEN Tpl.Function \o funcName \o Tpl.GreetBody
                 ELSE Tpl.Function \o funcName \o Tpl.StubBody
        ELSE IF has(Kw.variable) \/ has(Kw.let) \/ has(Kw.const)
        THEN LET varName == extractVariableName(description)
             IN  IF has(Kw.number) \/ has(Kw.integer) THEN Tpl.Let \o varName \o Tpl.Zero
                 ELSE IF has(Kw.string) \/ has(Kw.text)
                 THEN Tpl.Let \o varName \o Tpl.EmptyString
                 ELSE IF has(Kw.array) \/ has(Kw.list)
                 THEN Tpl.Let \o varName \o Tpl.EmptyArray
                 ELSE Tpl.Let \o varName \o Tpl.Null
        ELSE IF has(Kw.loop) \/ has(Kw.for) \/ has(Kw.while)
        THEN IF has(Kw.for) /\ has(Kw.each) THEN Tpl.ForEach
             ELSE IF has(Kw.while) THEN Tpl.While
             ELSE Tpl.CountingLoop
        ELSE IF has(Kw.if) \/ has(Kw.condition) THEN Tpl.IfElse
        ELSE IF has(Kw.print) \/ has(Kw.console) \/ has(Kw.log)
        THEN Tpl.LogOpen \o extractMessage(description) \o Tpl.LogClose
        ELSE Tpl.DefaultHead \o description \o Tpl.DefaultTail

-----------------------------------------------------------------------------
(* The voice path: readCodeFromVoice and processVoiceCommand.              *)
(*                                                                         *)
(* The editor-state provider as readCodeFromVoice sees it:                 *)
(*   element    document.querySelector('.monaco-editor') is not null       *)
(*   hooked     the element carries __monacoEditor                         *)
(*   throws     reading through __monacoEditor throws                      *)
(*   model      editor.getModel() is not null                              *)
(*   value, languageId   model.getValue(), model.getLanguageId()           *)
(*   selection  window.getSelection().toString() ('' without a selection)  *)

\* Mutant of readCodeFromVoice: the language id of the model is not passed on.
readCodeFromVoice_NoLanguage(ed) ==
    IF ~ed.element THEN <<Msg.NoActiveEditor>>
    ELSE IF ed.hooked /\ ed.throws THEN <<Msg.ErrorReadingCode>>
    ELSE LET fromModel  == ed.hooked /\ ed.model
             modelCode  == IF fromModel THEN ed.value ELSE <<>>
             codeToRead == IF Trim(modelCode) = <<>> /\ Trim(ed.selection) # <<>>
                           THEN ed.selection ELSE modelCode
         IN  IF Trim(codeToRead) # <<>> THEN readCode(codeToRead, Txt.Unknown)
             ELSE <<Msg.NoCodeFound>>

\* the utterances of readCodeFromVoice, in order
readCodeFromVoice(ed) ==
    IF ~ed.element THEN <<Msg.NoActiveEditor>>
    ELSE IF ed.hooked /\ ed.throws THEN <<Msg.ErrorReadingCode>>
    ELSE LET fromModel  == ed.hooked /\ ed.model
             modelCode  == IF fromModel THEN ed.value ELSE <<>>
             language   == IF fromModel /\ ed.languageId # <<>>
                           THEN ed.languageId ELSE Txt.Unknown
             codeToRead == IF Trim(modelCode) = <<>> /\ Trim(ed.selection) # <<>>
                           THEN ed.selection ELSE modelCode
         IN  IF Trim(codeToRead) # <<>> THEN readCode(codeToRead, language)
             ELSE <<Msg.NoCodeFound>>

\* Mutant of VoiceBranch: save is tested before run.
VoiceBranch_SaveFirst(transcript) ==
    LET lowerTranscript == ToLowerCase(transcript)
        has(kw)         == Includes(lowerTranscript, kw)
    IN  IF has(Kw.save) THEN "save"
        ELSE IF has(Kw.run) \/ has(Kw.execute) THEN "run"
        ELSE IF has(Kw.clear) \/ has(Kw.delete) THEN "clear"
        ELSE IF \/ has(Kw.read) \/ has(Kw.explain)
                \/ has(Kw.what_does_this_code_do) \/ has(Kw.what_does_this_do)
                \/ has(Kw.explain_this_code) \/ has(Kw.tell_me_about_this_code)
                \/ has(Kw.summarize_this_code) THEN "read"
        ELSE IF has(Kw.generate) \/ has(Kw.create) \/ has(Kw.write) THEN "generate"
        ELSE "unknown"

\* the branch of the if-chain of processVoiceCommand a transcript takes
VoiceBranch(transcript) ==
    LET lowerTranscript == ToLowerCase(transcript)
        has(kw)         == Includes(lowerTranscript, kw)
    IN  IF has(Kw.run) \/ has(Kw.execute) THEN "run"
        ELSE IF has(Kw.save) THEN "save"
        ELSE IF has(Kw.clear) \/ has(Kw.delete) THEN "clear"
        ELSE IF \/ has(Kw.read) \/ has(Kw.explain)
                \/ has(Kw.what_does_this_code_do) \/ has(Kw.what_does_this_do)
                \/ has(Kw.explain_this_code) \/ has(Kw.tell_me_about_this_code)
                \/ has(Kw.summarize_this_code) THEN "read"
        ELSE IF has(Kw.generate) \/ has(Kw.create) \/ has(Kw.write) THEN "generate"
        ELSE "unknown"

\* Mutant of processVoiceCommand: the synthesizer is given the lower-cased
\* transcript.
processVoiceCommand_LowerCased(transcript, ed) ==
    LET branch == VoiceBranch(transcript)
    IN  [spoken |->
            CASE branch = "run"      -> executeCommand(Kw.run).spoken
              [] branch = "save"     -> executeCommand(Kw.save).spoken
              [] branch = "clear"    -> executeCommand(Kw.clear).spoken
              [] branch = "read"     -> <<Msg.ReadingAndExplaining>> \o readCodeFromVoice(ed)
              [] branch = "generate" ->
                    <<Msg.GeneratePrefix \o generateCodeFromSpeech(ToLowerCase(transcript))>>
              [] OTHER               -> <<Msg.DidntUnderstand>>,
         issued |-> <<>>]

\* processVoiceCommand: the utterances it speaks, in order, and the commands it
\* hands to the command service (it has no reference to one)
\* processVoiceCommand that hands the transcript itself to executeCommand
processVoiceCommand_PassesTranscript(transcript, ed) ==
    LET branch == VoiceBranch(transcript)
    IN  [spoken |->
            CASE branch \in {"run", "save", "clear"} -> executeCommand(transcript).spoken
              [] branch = "read"     -> <<Msg.ReadingAndExplaining>> \o readCodeFromVoice(ed)
              [] branch = "generate" ->
                    <<Msg.GeneratePrefix \o generateCodeFromSpeech(transcript)>>
              [] OTHER               -> <<Msg.DidntUnderstand>>,
         issued |-> <<>>]

processVoiceCommand(transcript, ed) ==
    LET branch == VoiceBranch(transcript)
    IN  [spoken |->
            CASE branch = "run"      -> executeCommand(Kw.run).spoken
              [] branch = "save"     -> executeCommand(Kw.save).spoken
              [] branch = "clear"    -> executeCommand(Kw.clear).spoken
              [] branch = "read"     -> <<Msg.ReadingAndExplaining>> \o readCodeFromVoice(ed)
              [] branch = "generate" ->
                    <<Msg.GeneratePrefix \o generateCodeFromSpeech(transcript)>>
              [] OTHER               -> <<Msg.DidntUnderstand>>,
         issued |-> <<>>]

-----------------------------------------------------------------------------
(* The voice session.  Every SpeechRecognition object startVoiceInput      *)
(* creates is a session; its phase follows the events the browser has      *)
(* delivered to its handlers:                                              *)
(*   starting   start() was called, onstart is pending                     *)
(*   listening  onstart was delivered                                      *)
(*   heard      onresult was delivered (continuous = false: one result)    *)
(*   errored    onerror was delivered, onend is pending                    *)
(*   ended      onend was delivered                                        *)
(* stopped: stop() was called on the object.                               *)

NewSession == [phase |-> "starting", stopped |-> FALSE]

\* Mutant of startVoiceInput: the isListening check is missing.
startVoiceInput_NoListeningCheck(svc, isSupported) ==
    IF ~isSupported THEN svc @@ [spoken |-> <<Msg.Unsupported>>]
    ELSE [isListening |-> svc.isListening,
          recognition |-> Len(svc.sessions) + 1,
          sessions    |-> Append(svc.sessions, NewSession),
          spoken      |-> <<>>]

\* startVoiceInput on the service state svc = [isListening, recognition, sessions]
startVoiceInput(svc, isSupported) ==
    IF ~isSupported THEN svc @@ [spoken |-> <<Msg.Unsupported>>]
    ELSE IF svc.isListening THEN svc @@ [spoken |-> <<Msg.AlreadyListening>>]
    ELSE [isListening |-> svc.isListening,
          recognition |-> Len(svc.sessions) + 1,
          sessions    |-> Append(svc.sessions, NewSession),
          spoken      |-> <<>>]

\* stopVoiceInput that tests only that a recognition object exists
stopVoiceInput_NoFlagCheck(svc) ==
    IF svc.recognition # 0
    THEN [isListening |-> FALSE,
          recognition |-> svc.recognition,
          sessions    |-> [svc.sessions EXCEPT ![svc.recognition].stopped = TRUE],
          spoken      |-> <<Msg.Stopped>>]
    ELSE svc @@ [spoken |-> <<>>]

stopVoiceInput(svc) ==
    IF svc.recognition # 0 /\ svc.isListening
    THEN [isListening |-> FALSE,
          recognition |-> svc.recognition,
          sessions    |-> [svc.sessions EXCEPT ![svc.recognition].stopped = TRUE],
          spoken      |-> <<Msg.Stopped>>]
    ELSE svc @@ [spoken |-> <<>>]

-----------------------------------------------------------------------------
(* Inputs of the voice facade: the transcripts the recogniser delivers   *)
(* and the states of the editor-state provider.                           *)

\* transcripts
Tr ==
    [\* SAVE ÉCOLE ΟΣ (lowered: save école ος)
     SaveEcole |-> <<"S","A","V","E"," ","É","C","O","L","E"," ","Ο","Σ">>,
     \* Σ RUN ÖL Þ (lowered: σ run öl þ)
     SigmaRun |-> <<"Σ"," ","R","U","N"," ","Ö","L"," ","Þ">>,
     \* Run the code
     RunTheCode |-> <<"R","u","n"," ","t","h","e"," ","c","o","d","e">>,
     \* Save file
     SaveFile |-> <<"S","a","v","e"," ","f","i","l","e">>,
     \* Clear editor
     ClearEditor |-> <<"C","l","e","a","r"," ","e","d","i","t","o","r">>,
     \* explain this code
     ExplainThisCode |->
        <<"e","x","p","l","a","i","n"," ","t","h","i","s"," ","c","o","d","e">>,
     \* create a function that adds two numbers
     CreateFunction |->
        <<"c","r","e","a","t","e"," ","a"," ","f","u","n","c","t","i","o","n"," ","t","h","a","t",
        " ","a","d","d","s"," ","t","w","o"," ","n","u","m","b","e","r","s">>,
     \* please run and then save
     RunThenSave |->
        <<"p","l","e","a","s","e"," ","r","u","n"," ","a","n","d"," ","t","h","e","n"," ","s","a",
        "v","e">>,
     \* Write Something
     WriteSomething |-> <<"W","r","i","t","e"," ","S","o","m","e","t","h","i","n","g">>,
     \* hello
     Hello |-> <<"h","e","l","l","o">>]

\* code samples
Sample ==
    [\* for i in range(5): print("hi")
     LoopPrint |->
        <<"f","o","r"," ","i"," ","i","n"," ","r","a","n","g","e","(","5",")",":"," ","p","r","i",
        "n","t","(","\"","h","i","\"",")">>,
     \* def foo():\n    return 1
     Function |->
        <<"d","e","f"," ","f","o","o","(",")",":","\n"," "," "," "," ","r","e","t","u","r","n"," ",
        "1">>,
     \* def foo():\n    return 1\ndef bar():\n    return 2
     TwoFunctions |->
        <<"d","e","f"," ","f","o","o","(",")",":","\n"," "," "," "," ","r","e","t","u","r","n"," ","1","\n","d","e","f"," ","b","a","r","(",")",":","\n"," "," "," "," ","r","e","t","u","r","n"," ","2">>,
     \* for x in xs:\n    pass\nwhile y:\n    pass
     TwoLoops |->
        <<"f","o","r"," ","x"," ","i","n"," ","x","s",":","\n"," "," "," "," ","p","a","s","s","\n","w","h","i","l","e"," ","y",":","\n"," "," "," "," ","p","a","s","s">>,
     \* import "lib2"\nfor i in range(5):\n    print("hi")
     EarlierLiterals |->
        <<"i","m","p","o","r","t"," ","\"","l","i","b","2","\"","\n","f","o","r"," ","i"," ","i","n"," ","r","a","n","g","e","(","5",")",":","\n"," "," "," "," ","p","r","i","n","t","(","\"","h","i","\"",")">>,
     \* x = 1
     Assignment |-> <<"x"," ","="," ","1">>,
     \* function add(a, b) { return a + b; }
     AddFunction |->
        <<"f","u","n","c","t","i","o","n"," ","a","d","d","(","a",","," ","b",")"," ","{"," ","r","e","t","u","r","n"," ","a"," ","+"," ","b",";"," ","}">>,
     \* function add(a, b) {\n  return a + b;\n}
     AddFunctionLines |->
        <<"f","u","n","c","t","i","o","n"," ","a","d","d","(","a",","," ","b",")"," ","{","\n"," "," ","r","e","t","u","r","n"," ","a"," ","+"," ","b",";","\n","}">>,
     \*   \n
     Blank |-> <<" "," ","\n">>,
     \* export function foo() {\n  return 1;\n}
     ExportFunction |->
        <<"e","x","p","o","r","t"," ","f","u","n","c","t","i","o","n"," ","f","o","o","(",")"," ","{","\n"," "," ","r","e","t","u","r","n"," ","1",";","\n","}">>,
     \* async def bar():\n    return 2
     AsyncDef |->
        <<"a","s","y","n","c"," ","d","e","f"," ","b","a","r","(",")",":","\n"," "," "," "," ","r","e","t","u","r","n"," ","2">>,
     \* return function inner() {}
     ReturnFunction |->
        <<"r","e","t","u","r","n"," ","f","u","n","c","t","i","o","n"," ","i","n","n","e","r","(",")"," ","{","}">>,
     \* \f\n\fx = 1\f
     FormFeeds |-> <<"\f","\n","\f","x"," ","="," ","1","\f">>,
     \* a definition and a return between U+000B, U+00A0, U+1680 and U+FEFF:
     \* <U+000B>function<U+1680>foo() {<U+00A0>\n<U+FEFF>return 1<U+FEFF>
     OtherSpaces |->
        <<"","f","u","n","c","t","i","o","n"," ","f","o","o","(",")"," ","{"," ","\n","﻿","r","e","t","u","r","n"," ","1","﻿">>,
     \* def a function b\n    return 1
     DefThenFunction |->
        <<"d","e","f"," ","a"," ","f","u","n","c","t","i","o","n"," ","b","\n"," "," "," "," ","r","e","t","u","r","n"," ","1">>,
     \* f(x) { function g\n  return 1
     BareThenFunction |->
        <<"f","(","x",")"," ","{"," ","f","u","n","c","t","i","o","n"," ","g","\n"," "," ","r","e","t","u","r","n"," ","1">>,
     \* x y(function g\n  return 1
     TypedThenFunction |->
        <<"x"," ","y","(","f","u","n","c","t","i","o","n"," ","g","\n"," "," ","r","e","t","u","r","n"," ","1">>,
     \* # a\n\n  /* b\n * c\n<!-- d\n-- e\n   
     CommentsOnly |->
        <<"#"," ","a","\n","\n"," "," ","/","*"," ","b","\n"," ","*"," ","c","\n","<","!","-","-",
        " ","d","\n","-","-"," ","e","\n"," "," "," ">>]

\* python
LangPython == <<"p","y","t","h","o","n">>

Transcripts ==
    {Tr.RunTheCode, Tr.SaveFile, Tr.ClearEditor, Tr.ExplainThisCode, Tr.CreateFunction,
     Tr.RunThenSave, Tr.WriteSomething, Tr.Hello}

\* event.error of a SpeechRecognitionErrorEvent
ErrorCodes ==
    {\* no-speech
     <<"n","o","-","s","p","e","e","c","h">>,
     \* not-allowed
     <<"n","o","t","-","a","l","l","o","w","e","d">>}

Editor(element, hooked, throws, model, value, languageId, selection) ==
    [element |-> element, hooked |-> hooked, throws |-> throws, model |-> model,
     value |-> value, languageId |-> languageId, selection |-> selection]

NoEditor == Editor(FALSE, FALSE, FALSE, FALSE, <<>>, <<>>, <<>>)

Editors ==
    {NoEditor,
     \* an editor element without __monacoEditor, nothing selected / a selection
     Editor(TRUE, FALSE, FALSE, FALSE, <<>>, <<>>, <<>>),
     Editor(TRUE, FALSE, FALSE, FALSE, <<>>, <<>>, Sample.Assignment),
     \* a model with code, with and without a language id
     Editor(TRUE, TRUE, FALSE, TRUE, Sample.LoopPrint, LangPython, <<>>),
     Editor(TRUE, TRUE, FALSE, TRUE, Sample.Function, <<>>, Sample.Assignment),
     \* a blank model with a selection, and without one
     Editor(TRUE, TRUE, FALSE, TRUE, Sample.Blank, LangPython, Sample.LoopPrint),
     Editor(TRUE, TRUE, FALSE, TRUE, Sample.Blank, LangPython, <<>>),
     \* __monacoEditor without a model, and one that throws
     Editor(TRUE, TRUE, FALSE, FALSE, <<>>, <<>>, <<>>),
     Editor(TRUE, TRUE, TRUE, FALSE, <<>>, <<>>, <<>>)}

\* editorService.activeTextEditorControl, as the handlers of the toolbar and of
\* the widget read it: present (it is not undefined), getModel / getValue /
\* setValue ('<name>' in activeEditor), throws (getModel() throws), model
\* (getModel() is not null), value (the text of the model), languageId
\* (model.getLanguageId()), selected (the text of a selection that is not empty)
ActiveControl ==
    [None     |-> [present |-> FALSE, getModel |-> FALSE, getValue |-> FALSE, setValue |-> FALSE,
                   throws |-> FALSE, model |-> FALSE, value |-> <<>>, languageId |-> <<>>,
                   selected |-> <<>>],
     \* a code editor with code, nothing selected
     Code     |-> [present |-> TRUE, getModel |-> TRUE, getValue |-> TRUE, setValue |-> TRUE,
                   throws |-> FALSE, model |-> TRUE, value |-> Sample.LoopPrint,
                   languageId |-> LangPython, selected |-> <<>>],
     \* a code editor with a selection, no language id
     Selected |-> [present |-> TRUE, getModel |-> TRUE, getValue |-> TRUE, setValue |-> TRUE,
                   throws |-> FALSE, model |-> TRUE, value |-> Sample.Function,
                   languageId |-> <<>>, selected |-> Sample.Assignment],
     \* a code editor with a blank model
     Blank    |-> [present |-> TRUE, getModel |-> TRUE, getValue |-> TRUE, setValue |-> TRUE,
                   throws |-> FALSE, model |-> TRUE, value |-> Sample.Blank,
                   languageId |-> LangPython, selected |-> <<>>],
     \* a control that is not a code editor
     Other    |-> [present |-> TRUE, getModel |-> FALSE, getValue |-> FALSE, setValue |-> FALSE,
                   throws |-> FALSE, model |-> FALSE, value |-> <<>>, languageId |-> <<>>,
                   selected |-> <<>>],
     \* a code editor whose getModel() throws
     Throws   |-> [present |-> TRUE, getModel |-> TRUE, getValue |-> TRUE, setValue |-> TRUE,
                   throws |-> TRUE, model |-> FALSE, value |-> <<>>, languageId |-> <<>>,
                   selected |-> <<>>]]

\* the language argument of readCode: absent, 'unknown', or a language id
Languages == {<<>>, Txt.Unknown, LangPython}

\* the code arguments of readCode in the interleavings of the public calls
CallSamples == {Sample.LoopPrint, Sample.AddFunction, Sample.CommentsOnly}

\* readCode, generateCodeFromSpeech and executeCommand on the arguments the
\* interleavings hand to them, computed once (the merge with the empty
\* function makes each table an explicit function)
CallTable ==
    [readCode |->
        [in \in (CallSamples \cup {Sample.Function, Sample.Assignment}) \X Languages |->
            [spoken |-> readCode(in[1], in[2]), result |-> <<>>]] @@ <<>>,
     generateCodeFromSpeech |->
        [description \in Transcripts |->
            [spoken |-> <<>>, result |-> generateCodeFromSpeech(description)]] @@ <<>>,
     executeCommand |->
        [command \in Transcripts |-> executeCommand(command)] @@ <<>>]

-----------------------------------------------------------------------------
(* State.                                                                  *)

VARIABLES
    supported,    \* 'webkitSpeechRecognition' in window || 'SpeechRecognition' in window
    isListening,  \* VARZService.isListening
    recognition,  \* VARZService.recognition: 0 for null, else the index in sessions
    sessions,     \* the SpeechRecognition objects created so far
    editor,       \* the editor-state provider
    lastOp,       \* the handler that ran last and its input
    spoken,       \* the utterances the last handler handed to speak, in order
    issued,       \* the commands the last handler handed to ICommandService, in order
    returned,     \* the string the last call returned (<<>>: '' or nothing)
    widget,       \* VARZWidget: indicator (the voice button has the class 'listening'),
                  \* timers (pending 10 s timeouts), subscribed (a listener of
                  \* onDidRecognizeSpeech is registered), display (style.display of
                  \* the container)
    pending,      \* the commands handed to ICommandService that have not settled, each
                  \* with the handler that awaits it
    active        \* editorService.activeTextEditorControl

vars == <<supported, isListening, recognition, sessions, editor, lastOp, spoken, issued,
         returned, widget, pending, active>>

\* failed: the command service rejected a command of the handler
Op(name, session, text, language) ==
    [name |-> name, session |-> session, text |-> text, language |-> language,
     failed |-> FALSE]

Service == [isListening |-> isListening, recognition |-> recognition, sessions |-> sessions]

\* the service fields after a method that returned the record r
ServiceBecomes(r) ==
    /\ isListening' = r.isListening
    /\ recognition' = r.recognition
    /\ sessions' = r.sessions

Init ==
    /\ supported \in BOOLEAN
    /\ isListening = FALSE
    /\ recognition = 0
    /\ sessions = <<>>
    \* every editor element without an active control, and every active control
    \* without an editor element or with a selection of the window only
    /\ \E w \in (Editors \X {ActiveControl.None})
                \cup ({NoEditor}
                      \X {ActiveControl.Code, ActiveControl.Selected, ActiveControl.Throws})
                \cup ({Editor(TRUE, FALSE, FALSE, FALSE, <<>>, <<>>, Sample.Assignment)}
                      \X {ActiveControl.Blank, ActiveControl.Other}) :
          /\ editor = w[1]
          /\ active = w[2]
    /\ lastOp = Op("init", 0, <<>>, <<>>)
    /\ spoken = <<>>
    /\ issued = <<>>
    /\ returned = <<>>
    /\ widget = [indicator |-> FALSE, timers |-> 0, subscribed |-> FALSE, display |-> ""]
    /\ pending = <<>>

-----------------------------------------------------------------------------
(* VARZService: the public methods and the recognition callbacks.          *)

\* startVoiceInput(); the model creates at most MaxSessions objects
StartVoiceInput ==
    /\ (supported /\ ~isListening) => Len(sessions) < MaxSessions
    /\ LET r == startVoiceInput(Service, supported)
       IN  /\ ServiceBecomes(r)
           /\ spoken' = r.spoken
    /\ UNCHANGED <<widget, pending, active>>
    /\ lastOp' = Op("startVoiceInput", 0, <<>>, <<>>)
    /\ returned' = <<>>
    /\ issued' = <<>>
    /\ UNCHANGED <<supported, editor>>

\* stopVoiceInput()
StopVoiceInput ==
    /\ LET r == stopVoiceInput(Service)
       IN  /\ ServiceBecomes(r)
           /\ spoken' = r.spoken
    /\ UNCHANGED <<widget, pending, active>>
    /\ lastOp' = Op("stopVoiceInput", 0, <<>>, <<>>)
    /\ returned' = <<>>
    /\ issued' = <<>>
    /\ UNCHANGED <<supported, editor>>

\* recognition.onstart of session s
OnStart(s) ==
    /\ sessions[s].phase = "starting"
    /\ sessions' = [sessions EXCEPT ![s].phase = "listening"]
    /\ isListening' = TRUE
    /\ spoken' = <<Msg.Listening>>
    /\ UNCHANGED <<widget, pending, active>>
    /\ lastOp' = Op("onstart", s, <<>>, <<>>)
    /\ returned' = <<>>
    /\ issued' = <<>>
    /\ UNCHANGED <<supported, recognition, editor>>

\* processVoiceCommand on the inputs of the voice facade, computed once (the
\* merge with the empty function makes the table an explicit function)
VoiceCommandTable ==
    [in \in Transcripts \X Editors |-> processVoiceCommand(in[1], in[2])] @@ <<>>

\* recognition.onresult of session s with event.results[0][0].transcript;
\* command is what processVoiceCommand(transcript) speaks and issues
HandleResult(s, transcript, command) ==
    /\ sessions[s].phase = "listening"
    /\ sessions' = [sessions EXCEPT ![s].phase = "heard"]
    /\ spoken' = <<Msg.HeardPrefix \o transcript \o Msg.HeardSuffix>> \o command.spoken
    /\ returned' = <<>>
    /\ issued' = command.issued
    /\ widget' = [widget EXCEPT !.indicator = widget.indicator /\ ~widget.subscribed]
    /\ UNCHANGED <<pending, active>>
    /\ lastOp' = Op("onresult", s, transcript, <<>>)
    /\ UNCHANGED <<supported, isListening, recognition, editor>>

\* onresult with one of the transcripts of the voice facade
OnResult(s, transcript) ==
    HandleResult(s, transcript, VoiceCommandTable[<<transcript, editor>>])

\* onresult with any transcript
OnResultOf(s, transcript) ==
    HandleResult(s, transcript, processVoiceCommand(transcript, editor))

\* recognition.onerror of session s with event.error
OnError(s, error) ==
    /\ sessions[s].phase \in {"starting", "listening", "heard"}
    /\ sessions' = [sessions EXCEPT ![s].phase = "errored"]
    /\ isListening' = FALSE
    /\ spoken' = <<Msg.RecognitionErrorPrefix \o error \o Msg.RecognitionErrorSuffix>>
    /\ UNCHANGED <<widget, pending, active>>
    /\ lastOp' = Op("onerror", s, error, <<>>)
    /\ returned' = <<>>
    /\ issued' = <<>>
    /\ UNCHANGED <<supported, recognition, editor>>

\* onend that leaves the listening flag as it is
OnEnd_KeepsListening(s) ==
    /\ \/ sessions[s].phase \in {"listening", "heard", "errored"}
       \/ sessions[s].phase = "starting" /\ sessions[s].stopped
    /\ sessions' = [sessions EXCEPT ![s].phase = "ended"]
    /\ UNCHANGED isListening
    /\ spoken' = <<>>
    /\ UNCHANGED <<widget, pending, active>>
    /\ lastOp' = Op("onend", s, <<>>, <<>>)
    /\ returned' = <<>>
    /\ issued' = <<>>
    /\ UNCHANGED <<supported, recognition, editor>>

\* recognition.onend of session s: after onstart, or at once for a session that
\* was stopped before it started
OnEnd(s) ==
    /\ \/ sessions[s].phase \in {"listening", "heard", "errored"}
       \/ sessions[s].phase = "starting" /\ sessions[s].stopped
    /\ sessions' = [sessions EXCEPT ![s].phase = "ended"]
    /\ isListening' = FALSE
    /\ spoken' = <<>>
    /\ UNCHANGED <<widget, pending, active>>
    /\ lastOp' = Op("onend", s, <<>>, <<>>)
    /\ returned' = <<>>
    /\ issued' = <<>>
    /\ UNCHANGED <<supported, recognition, editor>>

-----------------------------------------------------------------------------
(* VARZContribution: the toolbar handlers.  A handler that awaits the      *)
(* command service stops at its await; CommandSettles runs the rest of it  *)
(* when the command has resolved or was rejected, in a later turn of the   *)
(* event loop.                                                             *)

\* the command ids handed to ICommandService.executeCommand
Cmd ==
    [DebugStart   |-> "workbench.action.debug.start",
     FilesSave    |-> "workbench.action.files.save",
     SelectAll    |-> "editor.action.selectAll",
     ClipboardCut |-> "editor.action.clipboardCutAction"]

\* Most commands awaited at the same time
MaxPending == 1

\* handleVoiceInput
HandleVoiceInput ==
    /\ (supported /\ ~isListening) => Len(sessions) < MaxSessions
    /\ LET r == startVoiceInput(Service, supported)
       IN  /\ ServiceBecomes(r)
           /\ spoken' = <<ToolbarMsg.VoiceInputActivated>> \o r.spoken
    /\ UNCHANGED <<widget, pending, active>>
    /\ lastOp' = Op("handleVoiceInput", 0, <<>>, <<>>)
    /\ returned' = <<>>
    /\ issued' = <<>>
    /\ UNCHANGED <<supported, editor>>

\* handleReadCode: reads the active editor control, then the selection of the
\* window
HandleReadCode ==
    /\ spoken' =
          IF ~active.present THEN <<ToolbarMsg.NoActiveEditor>>
          ELSE IF active.getModel /\ active.throws THEN <<ToolbarMsg.ErrorReadingCode>>
          ELSE LET fromModel  == active.getModel /\ active.model
                   language   == IF fromModel /\ active.languageId # <<>>
                                 THEN active.languageId ELSE Txt.Unknown
                   modelCode  == IF ~fromModel THEN <<>>
                                 ELSE IF active.selected # <<>> THEN active.selected
                                 ELSE active.value
                   codeToRead == IF Trim(modelCode) = <<>> /\ Trim(editor.selection) # <<>>
                                 THEN editor.selection ELSE modelCode
               IN  IF Trim(codeToRead) # <<>>
                   THEN CallTable.readCode[<<codeToRead, language>>].spoken
                   ELSE <<ToolbarMsg.NoCodeFound>>
    /\ lastOp' = Op("handleReadCode", 0, <<>>, <<>>)
    /\ returned' = <<>>
    /\ issued' = <<>>
    /\ UNCHANGED <<widget, pending, active>>
    /\ UNCHANGED <<supported, isListening, recognition, sessions, editor>>

\* handleRunCode, up to its await
HandleRunCode ==
    /\ Len(pending) < MaxPending
    /\ spoken' = <<ToolbarMsg.RunningCodeDots>>
    /\ returned' = <<>>
    /\ issued' = <<Cmd.DebugStart>>
    /\ pending' = Append(pending, [handler |-> "handleRunCode", command |-> Cmd.DebugStart])
    /\ UNCHANGED <<widget, active>>
    /\ lastOp' = Op("handleRunCode", 0, <<>>, <<>>)
    /\ UNCHANGED <<supported, isListening, recognition, sessions, editor>>

\* handleSaveFile, up to its await
HandleSaveFile ==
    /\ Len(pending) < MaxPending
    /\ spoken' = <<ToolbarMsg.SavingFileDots>>
    /\ returned' = <<>>
    /\ issued' = <<Cmd.FilesSave>>
    /\ pending' = Append(pending, [handler |-> "handleSaveFile", command |-> Cmd.FilesSave])
    /\ UNCHANGED <<widget, active>>
    /\ lastOp' = Op("handleSaveFile", 0, <<>>, <<>>)
    /\ UNCHANGED <<supported, isListening, recognition, sessions, editor>>

\* handleClearEditor, up to its first await
HandleClearEditor ==
    /\ Len(pending) < MaxPending
    /\ spoken' = <<ToolbarMsg.ClearingEditorDots>>
    /\ returned' = <<>>
    /\ issued' = <<Cmd.SelectAll>>
    /\ pending' = Append(pending, [handler |-> "handleClearEditor", command |-> Cmd.SelectAll])
    /\ UNCHANGED <<widget, active>>
    /\ lastOp' = Op("handleClearEditor", 0, <<>>, <<>>)
    /\ UNCHANGED <<supported, isListening, recognition, sessions, editor>>

\* the i-th pending command resolves (ok) or is rejected, and the handler that
\* awaits it runs on: to its next await, to its end, or into its catch block
CommandSettles(i, ok) ==
    /\ i \in DOMAIN pending
    /\ LET handler  == pending[i].handler
           command  == pending[i].command
           others   == SubSeq(pending, 1, i - 1) \o SubSeq(pending, i + 1, Len(pending))
           cutsNext == handler = "handleClearEditor" /\ command = Cmd.SelectAll /\ ok
       IN  /\ pending' = IF cutsNext
                         THEN Append(others, [handler |-> handler, command |-> Cmd.ClipboardCut])
                         ELSE others
           /\ issued' = IF cutsNext THEN <<Cmd.ClipboardCut>> ELSE <<>>
           /\ spoken' =
                 CASE handler = "handleSaveFile" /\ ok -> <<ToolbarMsg.FileSaved>>
                   [] handler = "handleClearEditor" /\ command = Cmd.ClipboardCut /\ ok ->
                         <<ToolbarMsg.EditorCleared>>
                   [] handler = "widgetHandleRunCode" ->
                         <<IF ok THEN WidgetMsg.CodeExecutionStarted ELSE WidgetMsg.FailedToRun>>
                   [] handler = "widgetHandleSaveFile" ->
                         <<IF ok THEN WidgetMsg.FileSaved ELSE WidgetMsg.FailedToSave>>
                   [] OTHER -> <<>>
           /\ lastOp' =
                 [Op(CASE handler = "handleRunCode"        -> "handleRunCodeResumes"
                       [] handler = "handleSaveFile"       -> "handleSaveFileResumes"
                       [] handler = "handleClearEditor"    -> "handleClearEditorResumes"
                       [] handler = "widgetHandleRunCode"  -> "widgetHandleRunCodeResumes"
                       [] handler = "widgetHandleSaveFile" -> "widgetHandleSaveFileResumes",
                     0, <<>>, <<>>)
                  EXCEPT !.failed = ~ok]
    /\ returned' = <<>>
    /\ UNCHANGED <<widget, active>>
    /\ UNCHANGED <<supported, isListening, recognition, sessions, editor>>

\* a public method of the service called with text (and language): readCode,
\* generateCodeFromSpeech or executeCommand; call is what it speaks and returns
Call(name, text, language, call) ==
    /\ spoken' = call.spoken
    /\ returned' = call.result
    /\ lastOp' = Op(name, 0, text, language)
    /\ issued' = <<>>
    /\ UNCHANGED <<widget, pending, active>>
    /\ UNCHANGED <<supported, isListening, recognition, sessions, editor>>

\* VARZService.speak(text) called by itself, as the command handlers of
\* varzCommands.ts do
Speak(text) ==
    /\ spoken' = <<text>>
    /\ lastOp' = Op("speak", 0, text, <<>>)
    /\ returned' = <<>>
    /\ issued' = <<>>
    /\ UNCHANGED <<widget, pending, active>>
    /\ UNCHANGED <<supported, isListening, recognition, sessions, editor>>

-----------------------------------------------------------------------------
(* VARZWidget: its buttons, the 10 second timer of the voice button, and   *)
(* show, hide and toggle.                                                  *)

MaxTimers == 2

\* VARZWidget.handleVoiceInput
WidgetHandleVoiceInput ==
    /\ (supported /\ ~isListening) => Len(sessions) < MaxSessions
    /\ widget.timers < MaxTimers
    /\ LET r == startVoiceInput(Service, supported)
       IN  /\ ServiceBecomes(r)
           /\ spoken' = <<ToolbarMsg.VoiceInputActivated>> \o r.spoken
    /\ widget' = [widget EXCEPT !.indicator = TRUE, !.timers = widget.timers + 1,
                                !.subscribed = TRUE]
    /\ UNCHANGED <<pending, active>>
    /\ lastOp' = Op("widgetHandleVoiceInput", 0, <<>>, <<>>)
    /\ returned' = <<>>
    /\ issued' = <<>>
    /\ UNCHANGED <<supported, editor>>

\* a variant of WidgetTimeout that leaves the indicator as it is
WidgetTimeout_KeepsIndicator ==
    /\ widget.timers > 0
    /\ widget' = [widget EXCEPT !.timers = widget.timers - 1]
    /\ UNCHANGED <<pending, active>>
    /\ lastOp' = Op("widgetTimeout", 0, <<>>, <<>>)
    /\ spoken' = <<>>
    /\ returned' = <<>>
    /\ issued' = <<>>
    /\ UNCHANGED <<supported, isListening, recognition, sessions, editor>>

\* the callback of setTimeout(..., 10000)
WidgetTimeout ==
    /\ widget.timers > 0
    /\ widget' = [widget EXCEPT !.indicator = FALSE, !.timers = widget.timers - 1]
    /\ UNCHANGED <<pending, active>>
    /\ lastOp' = Op("widgetTimeout", 0, <<>>, <<>>)
    /\ spoken' = <<>>
    /\ returned' = <<>>
    /\ issued' = <<>>
    /\ UNCHANGED <<supported, isListening, recognition, sessions, editor>>

\* VARZWidget.handleReadCode: getValue() of a control without a model is ''
WidgetHandleReadCode ==
    /\ spoken' =
          IF active.present /\ active.getValue
          THEN LET code == IF active.model THEN active.value ELSE <<>>
               IN  IF Trim(code) # <<>> THEN CallTable.readCode[<<code, <<>>>>].spoken
                   ELSE <<WidgetMsg.NoCodeToRead>>
          ELSE <<WidgetMsg.NoActiveEditor>>
    /\ lastOp' = Op("widgetHandleReadCode", 0, <<>>, <<>>)
    /\ returned' = <<>>
    /\ issued' = <<>>
    /\ UNCHANGED <<widget, pending, active>>
    /\ UNCHANGED <<supported, isListening, recognition, sessions, editor>>

\* VARZWidget.handleRunCode, up to its await
WidgetHandleRunCode ==
    /\ Len(pending) < MaxPending
    /\ spoken' = <<WidgetMsg.RunningCodeDots>>
    /\ returned' = <<>>
    /\ issued' = <<Cmd.DebugStart>>
    /\ pending' = Append(pending, [handler |-> "widgetHandleRunCode", command |-> Cmd.DebugStart])
    /\ UNCHANGED <<widget, active>>
    /\ lastOp' = Op("widgetHandleRunCode", 0, <<>>, <<>>)
    /\ UNCHANGED <<supported, isListening, recognition, sessions, editor>>

\* VARZWidget.handleSaveFile, up to its await
WidgetHandleSaveFile ==
    /\ Len(pending) < MaxPending
    /\ spoken' = <<WidgetMsg.SavingFileDots>>
    /\ returned' = <<>>
    /\ issued' = <<Cmd.FilesSave>>
    /\ pending' = Append(pending, [handler |-> "widgetHandleSaveFile", command |-> Cmd.FilesSave])
    /\ UNCHANGED <<widget, active>>
    /\ lastOp' = Op("widgetHandleSaveFile", 0, <<>>, <<>>)
    /\ UNCHANGED <<supported, isListening, recognition, sessions, editor>>

\* VARZWidget.handleClearEditor: setValue('') empties the model, and with it
\* the selection
WidgetHandleClearEditor ==
    /\ IF active.present /\ active.setValue
       THEN /\ active' = [active EXCEPT !.value = <<>>, !.selected = <<>>]
            /\ spoken' = <<WidgetMsg.ClearingEditorDots, WidgetMsg.EditorCleared>>
       ELSE /\ UNCHANGED active
            /\ spoken' = <<WidgetMsg.ClearingEditorDots, WidgetMsg.NoEditorToClear>>
    /\ lastOp' = Op("widgetHandleClearEditor", 0, <<>>, <<>>)
    /\ returned' = <<>>
    /\ issued' = <<>>
    /\ UNCHANGED <<widget, pending>>
    /\ UNCHANGED <<supported, isListening, recognition, sessions, editor>>

\* VARZWidget.show
WidgetShow ==
    /\ widget' = [widget EXCEPT !.display = "block"]
    /\ spoken' = <<WidgetMsg.ToolbarActivated>>
    /\ lastOp' = Op("widgetShow", 0, <<>>, <<>>)
    /\ returned' = <<>>
    /\ issued' = <<>>
    /\ UNCHANGED <<pending, active>>
    /\ UNCHANGED <<supported, isListening, recognition, sessions, editor>>

\* VARZWidget.hide
WidgetHide ==
    /\ widget' = [widget EXCEPT !.display = "none"]
    /\ spoken' = <<WidgetMsg.ToolbarHidden>>
    /\ lastOp' = Op("widgetHide", 0, <<>>, <<>>)
    /\ returned' = <<>>
    /\ issued' = <<>>
    /\ UNCHANGED <<pending, active>>
    /\ UNCHANGED <<supported, isListening, recognition, sessions, editor>>

\* VARZWidget.toggle: show() when the container is hidden, hide() otherwise
WidgetToggle ==
    /\ widget' = [widget EXCEPT !.display = IF widget.display = "none" THEN "block" ELSE "none"]
    /\ spoken' = <<IF widget.display = "none" THEN WidgetMsg.ToolbarActivated
                   ELSE WidgetMsg.ToolbarHidden>>
    /\ lastOp' = Op("widgetToggle", 0, <<>>, <<>>)
    /\ returned' = <<>>
    /\ issued' = <<>>
    /\ UNCHANGED <<pending, active>>
    /\ UNCHANGED <<supported, isListening, recognition, sessions, editor>>

\* a widget that was constructed, over a page without an editor element: the
\* constructor leaves style.display of the container empty, and the caller
\* may have hidden the container since
InitWidget ==
    /\ supported \in BOOLEAN
    /\ isListening = FALSE
    /\ recognition = 0
    /\ sessions = <<>>
    /\ editor = NoEditor
    /\ active \in {ActiveControl.None, ActiveControl.Code}
    /\ lastOp = Op("init", 0, <<>>, <<>>)
    /\ spoken = <<>>
    /\ issued = <<>>
    /\ returned = <<>>
    /\ \E display \in {"", "none"} :
          widget = [indicator |-> FALSE, timers |-> 0, subscribed |-> FALSE, display |-> display]
    /\ pending = <<>>

NextWidget ==
    \/ WidgetHandleVoiceInput
    \/ WidgetTimeout
    \/ WidgetHandleReadCode
    \/ WidgetHandleRunCode
    \/ WidgetHandleSaveFile
    \/ WidgetHandleClearEditor
    \/ \E i \in DOMAIN pending : \E ok \in BOOLEAN : CommandSettles(i, ok)
    \/ WidgetShow
    \/ WidgetHide
    \/ WidgetToggle
    \/ StopVoiceInput
    \/ \E s \in DOMAIN sessions : OnStart(s)
    \/ \E s \in DOMAIN sessions : \E transcript \in {Tr.RunTheCode, Tr.Hello} : OnResult(s, transcript)
    \/ \E s \in DOMAIN sessions : \E error \in ErrorCodes : OnError(s, error)
    \/ \E s \in DOMAIN sessions : OnEnd(s)

\* a timer that was set fires: the event loop runs the callback of setTimeout
SpecWidget == InitWidget /\ [][NextWidget]_vars /\ WF_vars(WidgetTimeout)

-----------------------------------------------------------------------------
(* Inputs of readCode: code samples made of the lines of a pool, each of     *)
(* which sets one structural flag. *)

\* the lines of the pool
PoolLine ==
    [\* def foo():
     Function |-> <<"d","e","f"," ","f","o","o","(",")",":">>,
     \* while x:
     Loop |-> <<"w","h","i","l","e"," ","x",":">>,
     \* print("hi")
     Output |-> <<"p","r","i","n","t","(","\"","h","i","\"",")">>,
     \* y = 2
     Variable |-> <<"y"," ","="," ","2">>,
     \* if y:
     Conditional |-> <<"i","f"," ","y",":">>,
     \*     return y
     Return |-> <<" "," "," "," ","r","e","t","u","r","n"," ","y">>,
     \* import os
     Import |-> <<"i","m","p","o","r","t"," ","o","s">>,
     \*   // note
     Comment |-> <<" "," ","/","/"," ","n","o","t","e">>]

-----------------------------------------------------------------------------
(* Inputs of processVoiceCommand: transcripts made of the words of a         *)
(* vocabulary. *)

\* the words of the vocabulary
Word ==
    [\* run
     run |-> <<"r","u","n">>,
     \* Execute
     Execute |-> <<"E","x","e","c","u","t","e">>,
     \* save
     save |-> <<"s","a","v","e">>,
     \* clear
     clear |-> <<"c","l","e","a","r">>,
     \* DELETE
     DELETE |-> <<"D","E","L","E","T","E">>,
     \* read
     read |-> <<"r","e","a","d">>,
     \* Explain
     Explain |-> <<"E","x","p","l","a","i","n">>,
     \* generate
     generate |-> <<"g","e","n","e","r","a","t","e">>,
     \* Create
     Create |-> <<"C","r","e","a","t","e">>,
     \* write
     write |-> <<"w","r","i","t","e">>,
     \* please
     please |-> <<"p","l","e","a","s","e">>,
     \* prune
     prune |-> <<"p","r","u","n","e">>,
     \* code
     code |-> <<"c","o","d","e">>,
     \* what does this do
     what_does_this_do |->
        <<"w","h","a","t"," ","d","o","e","s"," ","t","h","i","s"," ","d","o">>,
     \* Summarize this code
     Summarize_this_code |->
        <<"S","u","m","m","a","r","i","z","e"," ","t","h","i","s"," ","c","o","d","e">>,
     \* Function
     d_Function |-> <<"F","u","n","c","t","i","o","n">>,
     \* variable
     d_variable |-> <<"v","a","r","i","a","b","l","e">>,
     \* let
     d_let |-> <<"l","e","t">>,
     \* CONST
     d_CONST |-> <<"C","O","N","S","T">>,
     \* loop
     d_loop |-> <<"l","o","o","p">>,
     \* for
     d_for |-> <<"f","o","r">>,
     \* While
     d_While |-> <<"W","h","i","l","e">>,
     \* if
     d_if |-> <<"i","f">>,
     \* condition
     d_condition |-> <<"c","o","n","d","i","t","i","o","n">>,
     \* print
     d_print |-> <<"p","r","i","n","t">>,
     \* console
     d_console |-> <<"c","o","n","s","o","l","e">>,
     \* Log
     d_Log |-> <<"L","o","g">>,
     \* platform
     d_platform |-> <<"p","l","a","t","f","o","r","m">>]

Vocabulary ==
    {Word.run,
     Word.Execute,
     Word.save,
     Word.clear,
     Word.DELETE,
     Word.read,
     Word.Explain,
     Word.generate,
     Word.Create,
     Word.write,
     Word.please,
     Word.prune,
     Word.code,
     Word.what_does_this_do,
     Word.Summarize_this_code}

\* Longest transcript, in words of the vocabulary
MaxWords == 2

\* the transcripts of n words, separated by one space
RECURSIVE TranscriptsOf(_)
TranscriptsOf(n) ==
    IF n = 0 THEN {<<>>}
    ELSE IF n = 1 THEN Vocabulary
    ELSE {t \o <<" ">> \o w : t \in TranscriptsOf(n - 1), w \in Vocabulary}

WordTranscripts ==
    UNION {TranscriptsOf(n) : n \in 0..MaxWords} \cup Transcripts \cup {Tr.SaveEcole, Tr.SigmaRun}

PoolLines ==
    <<PoolLine.Function, PoolLine.Loop, PoolLine.Output, PoolLine.Variable, PoolLine.Conditional, PoolLine.Return,
      PoolLine.Import, PoolLine.Comment>>

\* the lines of the pool whose index is in S, in the order of the pool
RECURSIVE PickLines(_, _)
PickLines(S, k) ==
    IF k > Len(PoolLines) THEN <<>>
    ELSE (IF k \in S THEN <<PoolLines[k]>> ELSE <<>>) \o PickLines(S, k + 1)

Reverse(seq) == [i \in 1..Len(seq) |-> seq[Len(seq) + 1 - i]]

\* Array.prototype.join('\n')
RECURSIVE JoinLines(_)
JoinLines(lines) ==
    IF lines = <<>> THEN <<>>
    ELSE IF Len(lines) = 1 THEN lines[1]
    ELSE lines[1] \o <<"\n">> \o JoinLines(Tail(lines))

\* for <variable> in range(<count>):<body>print(<quote><message><quote>)
RangeLoop(variable, count, message, quote, body) ==
    Tok.for_ \o variable \o <<" ","i","n"," ">> \o Tok.range \o <<"(">> \o count \o <<")",":">>
        \o body \o Tok.print_paren \o quote \o message \o quote \o <<")">>

\* loops over range(N) that print a quoted message M, on one line or with the
\* print on a line of its own; the loop variable and the message may hold a
\* digit, and the message may hold an equals sign or an apostrophe, or be empty
RangeLoopSamples ==
    {[code |-> RangeLoop(variable, count, message, quote, body),
      count |-> count, message |-> message] :
        variable \in {<<"i">>, <<"i","2">>},
        count    \in {<<"5">>, <<"1","0">>},
        message  \in {<<"h","i">>, <<"a"," ","3">>, <<"a","=","3">>, <<"i","t","'","s">>, <<>>},
        quote    \in {<<"\"">>, <<"'">>},
        body     \in {<<" ">>, <<"\n"," "," "," "," ">>}}

CodeSamples ==
    {JoinLines(PickLines(S, 1)) : S \in SUBSET (1..Len(PoolLines))}
    \cup {JoinLines(Reverse(PickLines(S, 1))) : S \in SUBSET (1..Len(PoolLines))}
    \cup {Sample.CommentsOnly, Sample.Blank, Sample.LoopPrint, Sample.Function}
    \cup {r.code : r \in RangeLoopSamples}
    \cup {Sample.AddFunction, Sample.AddFunctionLines}
    \cup {Sample.TwoFunctions, Sample.TwoLoops, Sample.EarlierLiterals, Sample.FormFeeds}
    \cup {Sample.ExportFunction, Sample.AsyncDef, Sample.ReturnFunction}
    \cup {Sample.OtherSpaces, Sample.DefThenFunction, Sample.BareThenFunction,
          Sample.TypedThenFunction}

-----------------------------------------------------------------------------
(* readCode(code, language), the public entry to explainCode.              *)

ReadCode(code, language) ==
    /\ spoken' = readCode(code, language)
    /\ UNCHANGED <<widget, pending, active>>
    /\ lastOp' = Op("readCode", 0, code, language)
    /\ returned' = <<>>
    /\ issued' = <<>>
    /\ UNCHANGED <<supported, isListening, recognition, sessions, editor>>

\* One call of readCode on a service that has done nothing yet.
InitExplain ==
    /\ Init
    /\ supported
    /\ editor = NoEditor
    /\ active = ActiveControl.None

NextExplain ==
    /\ lastOp.name = "init"
    /\ \E code \in CodeSamples : \E language \in Languages : ReadCode(code, language)

SpecExplain == InitExplain /\ [][NextExplain]_vars

-----------------------------------------------------------------------------
(* One transcript delivered to a session that is listening: the state      *)
(* after startVoiceInput and onstart.                                      *)

InitDispatch ==
    /\ supported = TRUE
    /\ isListening = TRUE
    /\ recognition = 1
    /\ sessions = <<[phase |-> "listening", stopped |-> FALSE]>>
    /\ editor \in {NoEditor, Editor(TRUE, TRUE, FALSE, TRUE, Sample.LoopPrint, LangPython, <<>>)}
    /\ lastOp = Op("onstart", 1, <<>>, <<>>)
    /\ spoken = <<Msg.Listening>>
    /\ issued = <<>>
    /\ returned = <<>>
    /\ widget = [indicator |-> FALSE, timers |-> 0, subscribed |-> FALSE, display |-> ""]
    /\ pending = <<>>
    /\ active = ActiveControl.None

NextDispatch == \E transcript \in WordTranscripts : OnResultOf(1, transcript)

SpecDispatch == InitDispatch /\ [][NextDispatch]_vars

-----------------------------------------------------------------------------
(* generateCodeFromSpeech(description), called on a service that has done  *)
(* nothing yet. The descriptions are made of words that hold the keywords  *)
(* of the templates, in mixed case and inside longer words.                *)

DescriptionWords ==
    {Word.d_Function, Word.d_variable, Word.d_let, Word.d_CONST, Word.d_loop, Word.d_for,
     Word.d_While, Word.d_if, Word.d_condition, Word.d_print, Word.d_console, Word.d_Log,
     Word.d_platform, Word.please, Word.code}

\* the descriptions of n words, separated by one space
RECURSIVE DescriptionsOf(_)
DescriptionsOf(n) ==
    IF n = 0 THEN {<<>>}
    ELSE IF n = 1 THEN DescriptionWords
    ELSE {t \o <<" ">> \o w : t \in DescriptionsOf(n - 1), w \in DescriptionWords}

Descriptions ==
    UNION {DescriptionsOf(n) : n \in 0..MaxWords} \cup Transcripts
    \cup {<<" "," ">>, <<" ","\n","\t">>, Tr.SaveEcole, Tr.SigmaRun}

GenerateCode(description) ==
    /\ returned' = generateCodeFromSpeech(description)
    /\ UNCHANGED <<widget, pending, active>>
    /\ lastOp' = Op("generateCodeFromSpeech", 0, description, <<>>)
    /\ spoken' = <<>>
    /\ issued' = <<>>
    /\ UNCHANGED <<supported, isListening, recognition, sessions, editor>>

NextGenerate ==
    /\ lastOp.name = "init"
    /\ \E description \in Descriptions : GenerateCode(description)

SpecGenerate == InitExplain /\ [][NextGenerate]_vars

-----------------------------------------------------------------------------
(* One call of readCode, one transcript or one call of                     *)
(* generateCodeFromSpeech on a service that is listening; the inputs       *)
(* include the empty text, blank texts and a text without any keyword.     *)

BlankTexts ==
    {<<>>, <<" "," ">>, <<" ","\n","\t">>, <<"\f">>, <<"\r","\n","\f"," ">>,
     <<"">>, <<" "," ","﻿","">>}

NextCore ==
    /\ lastOp.name = "onstart"
    /\ \/ \E code \in CodeSamples \cup BlankTexts \cup {Tr.Hello} :
            \E language \in Languages : ReadCode(code, language)
       \/ \E transcript \in WordTranscripts \cup BlankTexts : OnResultOf(1, transcript)
       \/ \E description \in Descriptions \cup BlankTexts : GenerateCode(description)

SpecCore == InitDispatch /\ [][NextCore]_vars

-----------------------------------------------------------------------------
(* executeCommand as a public call, and a service that has an editor or    *)
(* none and no control of the widget under the pointer.                    *)

\* executeCommand(command)
ExecuteCommand(command) ==
    /\ LET r == executeCommand(command)
       IN  /\ spoken' = r.spoken
           /\ returned' = r.result
    /\ UNCHANGED <<widget, pending, active>>
    /\ lastOp' = Op("executeCommand", 0, command, <<>>)
    /\ issued' = <<>>
    /\ UNCHANGED <<supported, isListening, recognition, sessions, editor>>

InitCalls ==
    /\ Init
    /\ supported
    /\ editor \in {NoEditor, Editor(TRUE, TRUE, FALSE, TRUE, Sample.LoopPrint, LangPython, <<>>)}
    /\ active = ActiveControl.None

-----------------------------------------------------------------------------
(* The voice facade: every interleaving of the public methods, the         *)
(* recognition callbacks, the toolbar handlers and the commands they       *)
(* await.                                                                  *)

Next ==
    \/ StartVoiceInput
    \/ StopVoiceInput
    \/ \E s \in DOMAIN sessions : OnStart(s)
    \/ \E s \in DOMAIN sessions : \E transcript \in Transcripts : OnResult(s, transcript)
    \/ \E s \in DOMAIN sessions : \E error \in ErrorCodes : OnError(s, error)
    \/ \E s \in DOMAIN sessions : OnEnd(s)
    \/ \E code \in {Sample.LoopPrint, Sample.CommentsOnly} : \E language \in {<<>>, LangPython} :
          Call("readCode", code, language, CallTable.readCode[<<code, language>>])
    \/ \E description \in {Tr.CreateFunction, Tr.Hello} :
          Call("generateCodeFromSpeech", description, <<>>,
               CallTable.generateCodeFromSpeech[description])
    \/ \E command \in {Tr.RunTheCode, Tr.Hello} :
          Call("executeCommand", command, <<>>, CallTable.executeCommand[command])
    \/ \E text \in {CommandMsg.Working, CommandMsg.ReadingFromEditor, CommandMsg.RunningCodeDots,
                    CommandMsg.SavingFileDots, CommandMsg.ClearingEditorDots} : Speak(text)
    \/ HandleVoiceInput
    \/ HandleReadCode
    \/ HandleRunCode
    \/ HandleSaveFile
    \/ HandleClearEditor
    \/ \E i \in DOMAIN pending : \E ok \in BOOLEAN : CommandSettles(i, ok)

Spec == Init /\ [][Next]_vars

\* session s fires onend or onerror
SessionCloses(s) ==
    /\ s \in DOMAIN sessions
    /\ \/ OnEnd(s)
       \/ \E error \in ErrorCodes : OnError(s, error)

\* the voice facade, without an editor element, with a recogniser whose
\* sessions all close: a session that can fire onend or onerror eventually
\* fires one of them
SpecSessionsClose ==
    InitCalls /\ [][Next]_vars /\ \A s \in 1..MaxSessions : WF_vars(SessionCloses(s))

-----------------------------------------------------------------------------
(* One call of executeCommand on a service that has done nothing yet.      *)

\* the commands: the transcripts, lower-cased and as they are, bare and padded
\* with white space, and blank texts
Commands ==
    LET phrases == WordTranscripts \cup {ToLowerCase(t) : t \in Transcripts}
    IN  phrases \cup {<<" ">> \o t \o <<"\t"," ">> : t \in phrases} \cup BlankTexts

NextCommand ==
    /\ lastOp.name = "init"
    /\ \E command \in Commands : ExecuteCommand(command)

SpecCommand == InitExplain /\ [][NextCommand]_vars

-----------------------------------------------------------------------------
(* Properties of the voice facade.                                         *)

\* the sessions that were started and have not ended
ActiveSessions == {s \in DOMAIN sessions : sessions[s].phase # "ended"}

\* C1: under every interleaving of startVoiceInput, stopVoiceInput and the
\* recognition callbacks, at most one recognition object has been started and
\* has not yet ended.
C1_AtMostOneActiveSession == Cardinality(ActiveSessions) <= 1

\* C1 witness: startVoiceInput ran twice before the first onstart, and both
\* recognition objects are started while the flag is still false.
C1_Witness ==
    /\ lastOp.name = "startVoiceInput"
    /\ ~isListening
    /\ Len(sessions) = 2
    /\ sessions[1].phase = "starting" /\ sessions[2].phase = "starting"
    /\ recognition = 2

\* C2: startVoiceInput while the listening flag is true creates and starts no
\* recognition object, leaves isListening and recognition as they are, and
\* its only effect is the utterance 'Already listening for voice input.'.
C2_StartWhileListeningIsNoOp ==
    [][(isListening /\ lastOp'.name = "startVoiceInput") =>
            /\ isListening' = isListening
            /\ recognition' = recognition
            /\ sessions' = sessions
            /\ editor' = editor
            /\ issued' = <<>>
            /\ spoken' = <<Msg.AlreadyListening>>]_vars

\* C2 witness: a startVoiceInput that found the flag set and said so, with a
\* session listening.
C2_Witness ==
    /\ lastOp.name = "startVoiceInput"
    /\ isListening
    /\ spoken = <<Msg.AlreadyListening>>
    /\ \E s \in DOMAIN sessions : sessions[s].phase = "listening"

\* the trigger words of the intents, in the priority order of the claim
IntentRules ==
    <<[intent |-> "run",      words |-> {Kw.run, Kw.execute}],
      [intent |-> "save",     words |-> {Kw.save}],
      [intent |-> "clear",    words |-> {Kw.clear, Kw.delete}],
      [intent |-> "read",     words |-> {Kw.read, Kw.explain, Kw.what_does_this_code_do,
                                         Kw.what_does_this_do, Kw.explain_this_code,
                                         Kw.tell_me_about_this_code, Kw.summarize_this_code}],
      [intent |-> "generate", words |-> {Kw.generate, Kw.create, Kw.write}]>>

\* the intent the claim assigns to a transcript: that of the earliest-listed
\* rule of which the transcript contains a word, whatever the case, else unknown
IntentByRules(transcript) ==
    LET lowered == ToLowerCase(transcript)
        fired   == {k \in DOMAIN IntentRules :
                        \E w \in IntentRules[k].words : Includes(lowered, w)}
    IN  IF fired = {} THEN "unknown" ELSE IntentRules[MinOf(fired)].intent

\* IntentByRules, tabulated over the transcripts of the specifications
ClaimedIntent == [t \in Transcripts \cup WordTranscripts |-> IntentByRules(t)] @@ <<>>

\* the intents whose reaction the utterances of an onresult show (the first
\* utterance echoes the transcript, the second opens the reaction)
ShownIntents(said) ==
    IF Len(said) < 2 THEN {}
    ELSE {i \in {"run", "save", "clear", "read", "generate", "unknown"} :
            \/ i = "run" /\ said[2] = Msg.RunningCode
            \/ i = "save" /\ said[2] = Msg.SavingFile
            \/ i = "clear" /\ said[2] = Msg.ClearingEditor
            \/ i = "read" /\ said[2] = Msg.ReadingAndExplaining
            \/ i = "generate" /\ StartsWith(said[2], Msg.GeneratePrefix)
            \/ i = "unknown" /\ said[2] = Msg.DidntUnderstand}

\* C3: every transcript is dispatched to exactly one intent, the earliest-listed
\* one (Run > Save > Clear > Read > Generate) of which it contains a trigger
\* word, case-insensitively, and to Unknown when it contains none.
C3_IntentByPriority ==
    lastOp.name = "onresult" => ShownIntents(spoken) = {ClaimedIntent[lastOp.text]}

\* C3 witness: 'please run and then save' was dispatched as Run.
C3_Witness ==
    /\ lastOp.name = "onresult"
    /\ lastOp.text = Tr.RunThenSave
    /\ spoken[2] = Msg.RunningCode

\* the command of the command service that carries out an intent
CommandsOfIntent(intent) ==
    CASE intent = "run"   -> {Cmd.DebugStart}
      [] intent = "save"  -> {Cmd.FilesSave}
      [] intent = "clear" -> {Cmd.SelectAll, Cmd.ClipboardCut}
      [] OTHER            -> {}

\* C4: a transcript classified as Run, Save or Clear makes the facade issue the
\* corresponding command to the command executor and speak a confirmation.
C4_VoiceCommandIssued ==
    (lastOp.name = "onresult" /\ ClaimedIntent[lastOp.text] \in {"run", "save", "clear"}) =>
        /\ \E k \in DOMAIN issued : issued[k] \in CommandsOfIntent(ClaimedIntent[lastOp.text])
        /\ Len(spoken) >= 2

\* C4 witness: 'Run the code' was heard, 'Running code.' was spoken and no
\* command reached the command service.
C4_Witness ==
    /\ lastOp.name = "onresult"
    /\ lastOp.text = Tr.RunTheCode
    /\ spoken = <<Msg.HeardPrefix \o Tr.RunTheCode \o Msg.HeardSuffix, Msg.RunningCode>>
    /\ issued = <<>>

\* what the editor-state provider lets the facade see: it answers when there
\* is an editor element whose accessors do not throw
ProviderAnswers(ed) == ed.element /\ ~(ed.hooked /\ ed.throws)

\* the code the provider holds: the text of the model, or the selected text
\* when the model has none
ProvidedCode(ed) ==
    IF ed.hooked /\ ed.model /\ Trim(ed.value) # <<>> THEN ed.value
    ELSE IF Trim(ed.selection) # <<>> THEN ed.selection
    ELSE <<>>

\* the language id the provider reports
ProvidedLanguage(ed) ==
    IF ed.hooked /\ ed.model /\ ed.languageId # <<>> THEN ed.languageId ELSE Txt.Unknown

\* the echo of the transcript that opens the utterances of an onresult
Heard(transcript) == Msg.HeardPrefix \o transcript \o Msg.HeardSuffix

\* C5: after a transcript classified as Read, when the editor-state provider
\* holds non-blank code the last utterance is exactly the explanation of that
\* code and its language id; without an editor, or without code, the last
\* utterance is the 'No active editor found' / 'No code found' message and
\* no explanation is spoken.
C5_ReadSpeaksExplanation ==
    (lastOp.name = "onresult" /\ ClaimedIntent[lastOp.text] = "read") =>
        /\ ~editor.element =>
              spoken = <<Heard(lastOp.text), Msg.ReadingAndExplaining, Msg.NoActiveEditor>>
        /\ (ProviderAnswers(editor) /\ ProvidedCode(editor) = <<>>) =>
              spoken = <<Heard(lastOp.text), Msg.ReadingAndExplaining, Msg.NoCodeFound>>
        /\ (ProviderAnswers(editor) /\ ProvidedCode(editor) # <<>>) =>
              spoken = <<Heard(lastOp.text), Msg.ReadingAndExplaining,
                         explainCode(ProvidedCode(editor), ProvidedLanguage(editor))>>

\* C5 witness: 'explain this code' was heard over a python model with a loop
\* and a print, and the explanation names the language and the loop.
C5_Witness ==
    /\ lastOp.name = "onresult"
    /\ lastOp.text = Tr.ExplainThisCode
    /\ editor.hooked /\ editor.value = Sample.LoopPrint /\ editor.languageId = LangPython
    /\ Len(spoken) = 3
    /\ StartsWith(spoken[3], Txt.This \o LangPython \o Txt.Code \o Txt.Prints)

\* the utterance that embeds the snippet synthesized from a transcript
SnippetUtterance ==
    [t \in Transcripts |-> Msg.GeneratePrefix \o generateCodeFromSpeech(t)] @@ <<>>

\* C6: a transcript classified as Generate makes the facade speak one
\* utterance that embeds the snippet synthesized from the whole transcript,
\* and leaves the editor, the listening flag and the recognition session
\* as they were.
C6_GenerateOnlySpeaks ==
    [][(lastOp'.name = "onresult" /\ ClaimedIntent[lastOp'.text] = "generate") =>
            /\ spoken' = <<Heard(lastOp'.text), SnippetUtterance[lastOp'.text]>>
            /\ issued' = <<>>
            /\ editor' = editor
            /\ isListening' = isListening
            /\ recognition' = recognition
            /\ DOMAIN sessions' = DOMAIN sessions
            /\ \A s \in DOMAIN sessions :
                  /\ sessions'[s].stopped = sessions[s].stopped
                  /\ (sessions'[s].phase = "ended") = (sessions[s].phase = "ended")]_vars

\* C6 witness: 'Write Something' was heard while listening over an editor
\* with code, and the utterance carries the snippet.
C6_Witness ==
    /\ lastOp.name = "onresult"
    /\ lastOp.text = Tr.WriteSomething
    /\ isListening
    /\ editor.value = Sample.LoopPrint
    /\ Len(spoken) = 2
    /\ spoken[2] = Msg.GeneratePrefix \o Tpl.DefaultHead \o Tr.WriteSomething \o Tpl.DefaultTail

-----------------------------------------------------------------------------
(* Properties of the explanation sentence (under SpecExplain).             *)

\* a sample was explained that has a line that is neither blank nor a comment
ExplainedNonEmpty == lastOp.name = "readCode" /\ NonEmptyLines(lastOp.text) # <<>>

\* the conditions of the main clauses (a)..(g), in the order of the claim
MainClauseWhen(facts) ==
    <<facts.hasLoop /\ facts.hasPrint, facts.hasFunction, facts.hasPrint,
      facts.hasVariable, facts.hasConditional, facts.hasImport, TRUE>>

\* the text of the k-th main clause
MainClauseText(k, facts, lines) ==
    CASE k = 1 -> Txt.Prints \o extractPrintMessage(lines) \o Txt.QuoteSpace
                        \o extractLoopCount(lines) \o Txt.Times
      [] k = 2 -> Txt.DefinesFunction \o facts.functionName
                        \o (IF facts.hasReturn THEN Txt.ReturnsValue ELSE <<>>)
      [] k = 3 -> Txt.Prints \o extractPrintMessage(lines) \o Txt.Quote
      [] k = 4 -> Txt.CreatesVariables
      [] k = 5 -> Txt.ConditionalLogic
      [] k = 6 -> Txt.ImportsModules
      [] OTHER -> Txt.VariousOperations

\* the clause of the first rule whose condition holds
ClaimedMainClause(facts, lines) ==
    LET when == MainClauseWhen(facts)
    IN  MainClauseText(MinOf({k \in DOMAIN when : when[k]}), facts, lines)

\* what may follow the main clause: any qualifiers, in order, and the period
SentenceTails ==
    {(IF l THEN Txt.UsingLoop ELSE <<>>) \o (IF c THEN Txt.WithConditionals ELSE <<>>)
        \o (IF v THEN Txt.WithVariables ELSE <<>>) \o Txt.Period :
        l \in BOOLEAN, c \in BOOLEAN, v \in BOOLEAN}

\* C7: the explanation of a non-empty sample has exactly one main clause,
\* right after the opening and followed only by qualifiers and the period:
\* the first of (a)..(g) whose condition on the structural flags holds.
C7_MainClauseByPriority ==
    ExplainedNonEmpty =>
        LET lines == NonEmptyLines(lastOp.text)
            facts == analyzeCodeStructure(lines)
            head  == SummaryPrefix(lastOp.language) \o ClaimedMainClause(facts, lines)
        IN  \E tail \in SentenceTails : spoken[1] = head \o tail

\* C7 witness: a sample with a function, a loop and a print was explained as
\* loop-and-print (a), not as a function (b).
C7_Witness ==
    /\ ExplainedNonEmpty
    /\ LET facts == analyzeCodeStructure(NonEmptyLines(lastOp.text))
       IN  facts.hasFunction /\ facts.hasLoop /\ facts.hasPrint
    /\ LitAt(spoken[1], Len(SummaryPrefix(lastOp.language)) + 1, Txt.Prints)

\* the qualifiers the claim appends, in order
ClaimedQualifiers(facts) ==
    LET selectedA == facts.hasLoop /\ facts.hasPrint
    IN  (IF facts.hasLoop /\ ~selectedA THEN Txt.UsingLoop ELSE <<>>)
        \o (IF facts.hasConditional /\ ~facts.hasLoop THEN Txt.WithConditionals ELSE <<>>)
        \o (IF facts.hasVariable /\ ~facts.hasFunction THEN Txt.WithVariables ELSE <<>>)

\* C8: after the main clause come ' using a loop' iff hasLoop and (a) was not
\* selected, ' with conditional statements' iff hasConditional and not
\* hasLoop, ' with variable assignments' iff hasVariable and not hasFunction,
\* in this order, and then the period.
C8_QualifiersInOrder ==
    ExplainedNonEmpty =>
        LET lines == NonEmptyLines(lastOp.text)
            facts == analyzeCodeStructure(lines)
        IN  spoken[1] = SummaryPrefix(lastOp.language) \o MainClause(facts, lines)
                            \o ClaimedQualifiers(facts) \o Txt.Period

\* C8 witness: a sample with a conditional and a variable but no loop and no
\* function was explained, and its sentence ends with both qualifiers.
C8_Witness ==
    /\ ExplainedNonEmpty
    /\ LET facts == analyzeCodeStructure(NonEmptyLines(lastOp.text))
       IN  facts.hasConditional /\ facts.hasVariable /\ ~facts.hasLoop /\ ~facts.hasFunction
    /\ \E k \in 1..Len(spoken[1]) :
          LitAt(spoken[1], k, Txt.WithConditionals \o Txt.WithVariables \o Txt.Period)

\* the openings of a comment line
CommentMarkers ==
    {Tok.slashslash, Tok.hash, Tok.slashstar, Tok.htmlcomment, Tok.star, Tok.dashdash}

\* every line of the sample is blank or, trimmed, opens with a comment marker
OnlyCommentsOrBlank(code) ==
    LET lines == Split(code, "\n")
    IN  \A k \in DOMAIN lines :
            \/ Trim(lines[k]) = <<>>
            \/ \E m \in CommentMarkers : StartsWith(Trim(lines[k]), m)

\* C9: a sample of blank and comment lines only is explained as 'This code
\* appears to be empty or contains only comments.', whatever the language.
C9_CommentsOnlySentence ==
    (lastOp.name = "readCode" /\ OnlyCommentsOrBlank(lastOp.text)) =>
        spoken = <<Msg.EmptyOrComments>>

\* C9 witness: a sample with one comment of every kind and blank lines was
\* explained for python.
C9_Witness ==
    /\ lastOp.name = "readCode"
    /\ lastOp.text = Sample.CommentsOnly
    /\ lastOp.language = LangPython
    /\ spoken = <<Msg.EmptyOrComments>>

\* C10: the explanation of a non-empty sample opens with 'This <language>
\* code ' when a language other than 'unknown' was given and with 'This code '
\* otherwise, and ends with one period that follows the last clause.
C10_OpeningAndPeriod ==
    ExplainedNonEmpty =>
        LET sentence == spoken[1]
            named    == lastOp.language # <<>> /\ lastOp.language # Txt.Unknown
        IN  /\ Len(spoken) = 1
            /\ named => StartsWith(sentence, Txt.This \o lastOp.language \o Txt.Code)
            /\ ~named => StartsWith(sentence, Txt.ThisCode)
            /\ Len(sentence) >= 2
            /\ sentence[Len(sentence)] = "."
            /\ sentence[Len(sentence) - 1] # "."

\* C10 witness: a non-empty sample was explained with the language 'unknown'
\* and the sentence opens with 'This code '.
C10_Witness ==
    /\ ExplainedNonEmpty
    /\ lastOp.language = Txt.Unknown
    /\ StartsWith(spoken[1], Txt.ThisCode)
    /\ spoken[1][Len(spoken[1])] = "."

-----------------------------------------------------------------------------
(* Properties of the worked examples of explanation (under SpecExplain).   *)

\* the sentences the worked examples are to yield
Expected ==
    [\* This python code prints "hi" 5 times.
     LoopPrintPython |->
        <<"T","h","i","s"," ","p","y","t","h","o","n"," ","c","o","d","e"," ","p","r","i","n","t","s"," ","\"","h","i","\""," ","5"," ","t","i","m","e","s",".">>,
     \* This code defines a function called add that returns a value.
     AddFunction |->
        <<"T","h","i","s"," ","c","o","d","e"," ","d","e","f","i","n","e","s"," ","a"," ","f","u","n","c","t","i","o","n"," ","c","a","l","l","e","d"," ","a","d","d"," ","t","h","a","t"," ","r","e","t","u","r","n","s"," ","a"," ","v","a","l","u","e",".">>]

\* the worked example of C11: 'for i in range(5): print("hi")' for python has
\* the flags hasLoop and hasPrint, the loop count 5 and the message hi, and is
\* explained as 'This python code prints "hi" 5 times.'
LoopPrintExplained ==
    (lastOp.name = "readCode" /\ lastOp.text = Sample.LoopPrint /\ lastOp.language = LangPython) =>
        LET lines == NonEmptyLines(lastOp.text)
            facts == analyzeCodeStructure(lines)
        IN  /\ facts.hasLoop /\ facts.hasPrint
            /\ extractLoopCount(lines) = <<"5">>
            /\ extractPrintMessage(lines) = <<"h","i">>
            /\ spoken = <<Expected.LoopPrintPython>>

\* the loop r over range(N) that prints the quoted message M was explained
\* with the loop count N and the message M: the flags hasLoop and hasPrint are
\* set, hasVariable is set exactly when the message holds an equals sign, and
\* the sentence is the opening, 'prints "M" N times', the qualifier
\* ' with variable assignments' when hasVariable is set and none otherwise,
\* and the period
SaysRangeLoopPrints(r) ==
    LET lines == NonEmptyLines(r.code)
        facts == analyzeCodeStructure(lines)
    IN  /\ facts.hasLoop /\ facts.hasPrint
        /\ facts.hasVariable <=> (\E k \in DOMAIN r.message : r.message[k] = "=")
        /\ extractLoopCount(lines) = r.count
        /\ extractPrintMessage(lines) = r.message
        /\ \E opening \in {Txt.ThisCode, Txt.This \o lastOp.language \o Txt.Code} :
              spoken = <<opening \o <<"p","r","i","n","t","s"," ","\"">>
                            \o r.message \o <<"\""," ">> \o r.count
                            \o <<" ","t","i","m","e","s">>
                            \o (IF facts.hasVariable THEN Txt.WithVariables ELSE <<>>)
                            \o Txt.Period>>

\* C11 as stated: the worked example, and every loop over range(N) that
\* prints a quoted message M, whatever stands between the quotes, is explained
\* as 'prints "M" N times', without a qualifier when it has no assignment.
C11_RangeLoopPrintsAnyMessage ==
    /\ LoopPrintExplained
    /\ lastOp.name = "readCode" =>
          \A r \in RangeLoopSamples : lastOp.text = r.code => SaysRangeLoopPrints(r)

\* C11 amended: the worked example, and every loop over range(N) that prints
\* a quoted message M of one or more characters, none of them a single or a
\* double quote, is explained as 'prints "M" N times', without a qualifier
\* when it has no assignment.
C11_RangeLoopPrints ==
    /\ LoopPrintExplained
    /\ lastOp.name = "readCode" =>
          \A r \in RangeLoopSamples :
              (/\ lastOp.text = r.code
               /\ r.message # <<>>
               /\ \A k \in DOMAIN r.message : r.message[k] \notin QuoteChars)
                  => SaysRangeLoopPrints(r)

\* C11 witness: a two-line loop over range(10) whose variable and message
\* hold a digit was explained for python as printing "a 3" 10 times.
C11_Witness ==
    /\ lastOp.name = "readCode"
    /\ lastOp.language = LangPython
    /\ lastOp.text = RangeLoop(<<"i","2">>, <<"1","0">>, <<"a"," ","3">>, <<"'">>,
                               <<"\n"," "," "," "," ">>)
    /\ spoken = <<Txt.This \o LangPython \o Txt.Code
                    \o <<"p","r","i","n","t","s"," ","\"","a"," ","3","\""," ","1","0"," ",
                         "t","i","m","e","s",".">>>>

\* the name of a keyword-style definition: the trimmed line holds 'function'
\* or 'def', white space and a name, anywhere (the patterns are not anchored);
\* the name is the one analyzeFunctionDefinition takes from the line, that of
\* the leftmost match of its alternation
KeywordStyleName(line) ==
    LET s == Trim(line)
    IN  IF \E i \in 1..Len(s) : \/ KeywordNameAt(s, i, Tok.function) # <<>>
                                 \/ KeywordNameAt(s, i, Tok.def) # <<>>
        THEN analyzeFunctionDefinition(s)
        ELSE <<>>

\* the sample's only function-definition line when that line is keyword-style,
\* 0 otherwise
OnlyKeywordFunctionLine(lines) ==
    LET funcs == {k \in DOMAIN lines : isFunctionDefinition(Trim(lines[k]))}
    IN  IF Cardinality(funcs) = 1 /\ \A k \in funcs : KeywordStyleName(lines[k]) # <<>>
        THEN MinOf(funcs) ELSE 0

\* the sentence 'defines a function called <name> that returns a value.' after
\* an opening, and nothing else
SaysFunctionReturnsValue(name) ==
    \E opening \in {Txt.ThisCode, Txt.This \o lastOp.language \o Txt.Code} :
        spoken = <<opening
                   \o <<"d","e","f","i","n","e","s"," ","a"," ","f","u","n","c","t","i","o","n"," ",
                        "c","a","l","l","e","d"," ">>
                   \o name
                   \o <<" ","t","h","a","t"," ","r","e","t","u","r","n","s"," ","a"," ",
                        "v","a","l","u","e",".">>>>

\* the worked example of C12: 'function add(a, b) { return a + b; }' without a
\* language has the flags hasFunction and hasReturn and the name 'add', and is
\* explained as 'This code defines a function called add that returns a value.'
AddFunctionExplained ==
    (lastOp.name = "readCode" /\ lastOp.text = Sample.AddFunction /\ lastOp.language = <<>>) =>
        LET facts == analyzeCodeStructure(NonEmptyLines(lastOp.text))
        IN  /\ facts.hasFunction /\ facts.hasReturn
            /\ facts.functionName = <<"a","d","d">>
            /\ spoken = <<Expected.AddFunction>>

\* C12 as stated: the worked example, and every sample with one keyword-style
\* function definition line, a return and no loop, output or assignment is
\* explained as 'defines a function called <name> that returns a value' with
\* no qualifier.
C12_FunctionWithReturn ==
    /\ AddFunctionExplained
    /\ lastOp.name = "readCode" =>
          LET lines == NonEmptyLines(lastOp.text)
              facts == analyzeCodeStructure(lines)
              k     == OnlyKeywordFunctionLine(lines)
          IN  (k # 0 /\ facts.hasReturn /\ ~facts.hasLoop /\ ~facts.hasPrint
                  /\ ~facts.hasVariable)
                  => SaysFunctionReturnsValue(KeywordStyleName(lines[k])[1])

\* C12 amended: the worked example, and every sample with one keyword-style
\* function definition line, a return and no loop, output, assignment or
\* conditional is explained as 'defines a function called <name> that returns
\* a value' with no qualifier.
C12_FunctionWithReturnNoConditional ==
    /\ AddFunctionExplained
    /\ lastOp.name = "readCode" =>
          LET lines == NonEmptyLines(lastOp.text)
              facts == analyzeCodeStructure(lines)
              k     == OnlyKeywordFunctionLine(lines)
          IN  (k # 0 /\ facts.hasReturn /\ ~facts.hasLoop /\ ~facts.hasPrint
                  /\ ~facts.hasVariable /\ ~facts.hasConditional)
                  => SaysFunctionReturnsValue(KeywordStyleName(lines[k])[1])

\* C12 witness: the three-line form of the add function was explained for
\* python as a function called add that returns a value.
C12_Witness ==
    /\ lastOp.name = "readCode"
    /\ lastOp.text = Sample.AddFunctionLines
    /\ lastOp.language = LangPython
    /\ OnlyKeywordFunctionLine(NonEmptyLines(lastOp.text)) = 1
    /\ SaysFunctionReturnsValue(<<"a","d","d">>)

-----------------------------------------------------------------------------
(* Properties of code synthesis (under SpecGenerate).                      *)

\* the categories in the order of the claim, each with its trigger words
CategoryRules ==
    <<[category |-> "function",    triggers |-> {<<"f","u","n","c","t","i","o","n">>}],
      [category |-> "variable",    triggers |-> {<<"v","a","r","i","a","b","l","e">>,
                                                 <<"l","e","t">>, <<"c","o","n","s","t">>}],
      [category |-> "loop",        triggers |-> {<<"l","o","o","p">>, <<"f","o","r">>,
                                                 <<"w","h","i","l","e">>}],
      [category |-> "conditional", triggers |-> {<<"i","f">>,
                                                 <<"c","o","n","d","i","t","i","o","n">>}],
      [category |-> "output",      triggers |-> {<<"p","r","i","n","t">>,
                                                 <<"c","o","n","s","o","l","e">>,
                                                 <<"l","o","g">>}]>>

\* the earliest category one of whose triggers the description contains,
\* whatever the case; "fallback" when there is none
ClaimedCategory(description) ==
    LET hit == {k \in DOMAIN CategoryRules :
                   \E w \in CategoryRules[k].triggers : Includes(ToLowerCase(description), w)}
    IN  IF hit = {} THEN "fallback" ELSE CategoryRules[MinOf(hit)].category

\* s ends with suffix
EndsWith(s, suffix) == Len(suffix) <= Len(s) /\ LitAt(s, Len(s) - Len(suffix) + 1, suffix)

\* the categories whose template the snippet is an instance of
ShownCategories(snippet, description) ==
    {c \in {"function", "variable", "loop", "conditional", "output", "fallback"} :
        CASE c = "function" ->
                /\ StartsWith(snippet, Tpl.Function)
                /\ \E body \in {Tpl.SumBody, Tpl.ProductBody, Tpl.GreetBody, Tpl.StubBody} :
                      EndsWith(snippet, body)
          [] c = "variable" ->
                /\ StartsWith(snippet, Tpl.Let)
                /\ \E value \in {Tpl.Zero, Tpl.EmptyString, Tpl.EmptyArray, Tpl.Null} :
                      EndsWith(snippet, value)
          [] c = "loop" -> snippet \in {Tpl.ForEach, Tpl.While, Tpl.CountingLoop}
          [] c = "conditional" -> snippet = Tpl.IfElse
          [] c = "output" -> StartsWith(snippet, Tpl.LogOpen) /\ EndsWith(snippet, Tpl.LogClose)
          [] OTHER -> snippet = Tpl.DefaultHead \o description \o Tpl.DefaultTail}

\* C13: the snippet generateCodeFromSpeech returns is an instance of the
\* template of exactly one category: the earliest of Function, Variable, Loop,
\* Conditional, Output one of whose trigger words the description contains in
\* any case, and the fallback that echoes the description when it contains none.
C13_CategoryByPriority ==
    lastOp.name = "generateCodeFromSpeech" =>
        ShownCategories(returned, lastOp.text) = {ClaimedCategory(lastOp.text)}

\* C13 witness: 'print CONST' holds triggers of Output and of Variable, and a
\* variable declaration was returned.
C13_Witness ==
    /\ lastOp.name = "generateCodeFromSpeech"
    /\ lastOp.text = Word.d_print \o <<" ">> \o Word.d_CONST
    /\ returned = Tpl.Let \o Tpl.DefaultVariableName \o Tpl.Null

\* the function snippets with the two-argument sum body and one of the names
SumFunctionsNamed(names) == {Tpl.Function \o name \o Tpl.SumBody : name \in names}

\* C14 as stated: generateCodeFromSpeech('create a function that adds two
\* numbers') returns a function snippet with the two-argument sum body whose
\* function name is 'that' or 'myFunction'.
C14_SumFunctionNamedThatOrDefault ==
    (lastOp.name = "generateCodeFromSpeech" /\ lastOp.text = Tr.CreateFunction) =>
        returned \in SumFunctionsNamed({<<"t","h","a","t">>, Tpl.DefaultFunctionName})

\* C14 amended: generateCodeFromSpeech('create a function that adds two
\* numbers') returns a function snippet with the two-argument sum body whose
\* function name is 'a', the word that follows 'create'.
C14_SumFunctionNamedAfterCreate ==
    (lastOp.name = "generateCodeFromSpeech" /\ lastOp.text = Tr.CreateFunction) =>
        /\ ShownCategories(returned, lastOp.text) = {"function"}
        /\ returned \in SumFunctionsNamed({<<"a">>})

\* C14 witness: the description was synthesized and the snippet opens with
\* 'function a(a, b) {'.
C14_Witness ==
    /\ lastOp.name = "generateCodeFromSpeech"
    /\ lastOp.text = Tr.CreateFunction
    /\ StartsWith(returned, <<"f","u","n","c","t","i","o","n"," ","a","(","a",","," ","b",")"," ","{">>)

-----------------------------------------------------------------------------
(* Totality of the core functions (under SpecCore).                        *)

\* a JavaScript string that is not empty
IsText(s) == s \in Seq(STRING) /\ Len(s) > 0

\* C15: explanation, dispatch and synthesis give a result for every input.
\* readCode speaks one sentence, the fixed empty-or-comments sentence for an
\* empty or blank sample and 'performs various operations' for a sample
\* without any pattern; a transcript without a trigger word is answered with
\* the fixed fallback utterance; generateCodeFromSpeech returns a snippet, the
\* fallback snippet for a description without a trigger word, with
\* 'myFunction', 'myVariable' and 'Hello, World!' where the description gives
\* no name or message.
C15_CoreFunctionsTotal ==
    /\ lastOp.name = "readCode" =>
          /\ Len(spoken) = 1 /\ IsText(spoken[1])
          /\ Trim(lastOp.text) = <<>> => spoken = <<Msg.EmptyOrComments>>
          /\ lastOp.text = Tr.Hello =>
                EndsWith(spoken[1], <<"c","o","d","e"," ">> \o Txt.VariousOperations \o Txt.Period)
    /\ lastOp.name = "onresult" =>
          /\ Len(spoken) >= 2 /\ \A k \in DOMAIN spoken : IsText(spoken[k])
          /\ IntentByRules(lastOp.text) = "unknown"
                => spoken = <<Heard(lastOp.text), Msg.DidntUnderstand>>
    /\ lastOp.name = "generateCodeFromSpeech" =>
          /\ IsText(returned)
          /\ ClaimedCategory(lastOp.text) = "fallback"
                => returned = Tpl.DefaultHead \o lastOp.text \o Tpl.DefaultTail
          /\ (ClaimedCategory(lastOp.text) = "function"
                    /\ Leftmost(lastOp.text, FunctionNameAt) = <<>>)
                => StartsWith(returned, Tpl.Function \o Tpl.DefaultFunctionName \o <<"(">>)
          /\ (ClaimedCategory(lastOp.text) = "variable"
                    /\ Leftmost(lastOp.text, VariableNameAt) = <<>>)
                => StartsWith(returned, Tpl.Let \o Tpl.DefaultVariableName \o <<" ","=">>)
          /\ (ClaimedCategory(lastOp.text) = "output"
                    /\ Leftmost(lastOp.text, MessageAt) = <<>>)
                => returned = Tpl.LogOpen \o Tpl.DefaultMessage \o Tpl.LogClose

\* C15 witness: a transcript of a space, a line feed and a tab was delivered
\* and answered with the fallback utterance.
C15_Witness ==
    /\ lastOp.name = "onresult"
    /\ lastOp.text = <<" ","\n","\t">>
    /\ spoken = <<Heard(lastOp.text), Msg.DidntUnderstand>>

-----------------------------------------------------------------------------
(* Failures of the collaborators (under Spec).                             *)

\* what the toolbar handlers say of a command that is under way or has succeeded
ProgressUtterances ==
    {ToolbarMsg.RunningCodeDots, ToolbarMsg.SavingFileDots, ToolbarMsg.FileSaved,
     ToolbarMsg.ClearingEditorDots, ToolbarMsg.EditorCleared}

\* C16: every failure of a collaborator is spoken: startVoiceInput without
\* speech recognition says that voice input is not supported, onerror says the
\* error with its reason code, and a handler whose run, save or clear command
\* failed speaks at least one utterance that announces the failure.
C16_FailuresAreSpoken ==
    /\ (lastOp.name = "startVoiceInput" /\ ~supported) => spoken = <<Msg.Unsupported>>
    /\ lastOp.name = "onerror" =>
          spoken = <<Msg.RecognitionErrorPrefix \o lastOp.text \o Msg.RecognitionErrorSuffix>>
    /\ lastOp.failed => \E k \in DOMAIN spoken : spoken[k] \notin ProgressUtterances

\* C16 witness: the save command that handleSaveFile awaited was rejected, the
\* handler ran into its catch block and said nothing.
C16_Witness ==
    /\ lastOp.name = "handleSaveFileResumes"
    /\ lastOp.failed
    /\ pending = <<>>
    /\ issued = <<>>
    /\ spoken = <<>>

-----------------------------------------------------------------------------
(* Properties of executeCommand (under SpecCommand).                       *)

\* C18: executeCommand resolves the lower-cased, trimmed command by
\* containment in the order run, save, clear: it returns 'run', 'save' or
\* 'clear' and speaks 'Running code.', 'Saving file.' or 'Clearing editor.';
\* a command with none of the three words returns '' and speaks 'Command not
\* recognized.'; every call speaks exactly one utterance; 'run the code'
\* returns 'run'.
C18_ExecuteCommandResolves ==
    lastOp.name = "executeCommand" =>
        LET cmd     == Trim(ToLowerCase(lastOp.text))
            claimed == IF Includes(cmd, <<"r","u","n">>)
                            THEN <<<<"r","u","n">>, Msg.RunningCode>>
                       ELSE IF Includes(cmd, <<"s","a","v","e">>)
                            THEN <<<<"s","a","v","e">>, Msg.SavingFile>>
                       ELSE IF Includes(cmd, <<"c","l","e","a","r">>)
                            THEN <<<<"c","l","e","a","r">>, Msg.ClearingEditor>>
                       ELSE <<<<>>, Msg.NotRecognized>>
        IN  /\ returned = claimed[1]
            /\ spoken = <<claimed[2]>>
            /\ lastOp.text = <<"r","u","n"," ","t","h","e"," ","c","o","d","e">>
                  => returned = <<"r","u","n">>

\* C18 witness: ' save run\t ' holds 'save' before 'run' and was resolved to
\* 'run' with the one utterance 'Running code.'.
C18_Witness ==
    /\ lastOp.name = "executeCommand"
    /\ lastOp.text = <<" ">> \o Word.save \o <<" ">> \o Word.run \o <<"\t"," ">>
    /\ returned = <<"r","u","n">>
    /\ spoken = <<Msg.RunningCode>>

-----------------------------------------------------------------------------
(* Which line an extraction is taken from (under SpecExplain).             *)

\* C19: the function name of the structural facts is the name of the first
\* line that is a function definition, and the loop kind is that of the first
\* line that is a loop; later lines of the same category do not overwrite them.
C19_FirstMatchIsKept ==
    lastOp.name = "readCode" =>
        LET lines == NonEmptyLines(lastOp.text)
            facts == analyzeCodeStructure(lines)
            funcs == {k \in DOMAIN lines : isFunctionDefinition(Trim(lines[k]))}
            loops == {k \in DOMAIN lines : isLoopStatement(Trim(lines[k]))}
        IN  /\ funcs # {} =>
                  <<facts.functionName>> = analyzeFunctionDefinition(Trim(lines[MinOf(funcs)]))
            /\ loops # {} =>
                  facts.loopType = analyzeCodeStructure(<<lines[MinOf(loops)]>>).loopType

\* C19 witness: the sample that defines foo and then bar was explained as
\* 'This code defines a function called bar that returns a value.'.
C19_Witness ==
    /\ lastOp.name = "readCode"
    /\ lastOp.text = Sample.TwoFunctions
    /\ lastOp.language = <<>>
    /\ analyzeCodeStructure(NonEmptyLines(lastOp.text)).functionName = <<"b","a","r">>
    /\ SaysFunctionReturnsValue(<<"b","a","r">>)

\* C20: in the explanation of a sample with a loop and an output the count
\* is the one extracted from the first loop line and the message the one
\* extracted from the first output line; numbers and quoted strings of other
\* lines do not determine them.
C20_CountAndMessageOfFirstMatch ==
    lastOp.name = "readCode" =>
        LET lines   == NonEmptyLines(lastOp.text)
            loops   == {k \in DOMAIN lines : isLoopStatement(Trim(lines[k]))}
            outputs == {k \in DOMAIN lines : isConsoleOutput(Trim(lines[k]))}
        IN  (loops # {} /\ outputs # {}) =>
                \E tail \in SentenceTails :
                    spoken = <<SummaryPrefix(lastOp.language) \o Txt.Prints
                                \o extractPrintMessage(<<lines[MinOf(outputs)]>>) \o Txt.QuoteSpace
                                \o extractLoopCount(<<lines[MinOf(loops)]>>) \o Txt.Times \o tail>>

\* C20 witness: the sample whose import line holds "lib2" before the loop
\* over range(5) that prints "hi" was explained as 'This code prints "lib2" 2
\* times.'.
C20_Witness ==
    /\ lastOp.name = "readCode"
    /\ lastOp.text = Sample.EarlierLiterals
    /\ lastOp.language = <<>>
    /\ spoken = <<Txt.ThisCode \o <<"p","r","i","n","t","s"," ","\"","l","i","b","2","\""," ","2"," ",
                                    "t","i","m","e","s",".">>>>

-----------------------------------------------------------------------------
(* The flags of the structural facts (under SpecExplain).                  *)

\* C21: during the scan of a sample none of the seven flags goes back from
\* true to false from one line to the next, and at the end each flag is the
\* OR, over the lines that are neither blank nor comments, of the line test of
\* its category.
C21_FlagsMonotone ==
    lastOp.name = "readCode" =>
        LET lines == NonEmptyLines(lastOp.text)
            after == [n \in 0..Len(lines) |-> AnalyzePrefix(lines, n)] @@ <<>>
            facts == after[Len(lines)]
            some(test(_)) == \E k \in DOMAIN lines : test(Trim(lines[k]))
            hasReturnAt(line) == Includes(line, <<"r","e","t","u","r","n">>)
        IN  /\ \A n \in 1..Len(lines) :
                  /\ after[n - 1].hasFunction => after[n].hasFunction
                  /\ after[n - 1].hasLoop => after[n].hasLoop
                  /\ after[n - 1].hasPrint => after[n].hasPrint
                  /\ after[n - 1].hasVariable => after[n].hasVariable
                  /\ after[n - 1].hasConditional => after[n].hasConditional
                  /\ after[n - 1].hasReturn => after[n].hasReturn
                  /\ after[n - 1].hasImport => after[n].hasImport
            /\ facts = analyzeCodeStructure(lines)
            /\ facts.hasFunction = some(isFunctionDefinition)
            /\ facts.hasLoop = some(isLoopStatement)
            /\ facts.hasPrint = some(isConsoleOutput)
            /\ facts.hasVariable = some(isVariableAssignment)
            /\ facts.hasConditional = some(isConditionalStatement)
            /\ facts.hasReturn = some(hasReturnAt)
            /\ facts.hasImport = some(isImportStatement)

\* C21 witness: in the sample whose loop line is the second of three lines
\* hasLoop is false after the first line and true after the second and the
\* third, which is not a loop line.
C21_Witness ==
    /\ lastOp.name = "readCode"
    /\ lastOp.text = Sample.EarlierLiterals
    /\ LET lines == NonEmptyLines(lastOp.text)
       IN  /\ Len(lines) = 3
           /\ ~AnalyzePrefix(lines, 1).hasLoop
           /\ AnalyzePrefix(lines, 2).hasLoop
           /\ ~isLoopStatement(Trim(lines[3]))
           /\ AnalyzePrefix(lines, 3).hasLoop

-----------------------------------------------------------------------------
(* The listening indicator of the widget (under SpecWidget).               *)

\* C22: whenever the voice button shows the listening indicator, the
\* indicator is eventually cleared; a recognized transcript clears it and so
\* does the 10 second timer, and the timer changes neither the listening flag
\* of the service nor its recognition sessions.
C22_IndicatorCleared ==
    /\ widget.indicator ~> ~widget.indicator
    /\ [][/\ widget'.timers < widget.timers
                => /\ ~widget'.indicator
                   /\ UNCHANGED <<isListening, recognition, sessions>>
          /\ (lastOp'.name = "onresult" /\ sessions' # sessions)
                => ~widget'.indicator]_vars

\* C22 witness: the only timer has fired and cleared the indicator while the
\* service is still listening on the session the widget started.
C22_Witness ==
    /\ lastOp.name = "widgetTimeout"
    /\ ~widget.indicator
    /\ widget.timers = 0
    /\ widget.subscribed
    /\ isListening
    /\ recognition = 1
    /\ sessions = <<[phase |-> "listening", stopped |-> FALSE]>>

-----------------------------------------------------------------------------
(* The listening cycle (under SpecSessionsClose).                          *)

\* C23: when every recognition session eventually fires onend or onerror, a
\* listening flag that is true eventually returns to false, so it is never
\* left true forever, and a startVoiceInput issued in a supported browser
\* while the flag is false begins a new session and speaks nothing, it does
\* not answer 'Already listening for voice input.'.
C23_ListeningCycleReturnsToIdle ==
    /\ isListening ~> ~isListening
    /\ []<>(~isListening)
    /\ [][(lastOp'.name = "startVoiceInput" /\ supported /\ ~isListening)
                => /\ sessions' = Append(sessions, NewSession)
                   /\ recognition' = Len(sessions')
                   /\ spoken' = <<>>]_vars

\* C23 witness: the first session has ended, the flag is false again, and
\* the startVoiceInput issued after that began a second session.
C23_Witness ==
    /\ lastOp.name = "startVoiceInput"
    /\ supported
    /\ ~isListening
    /\ recognition = 2
    /\ sessions = <<[phase |-> "ended", stopped |-> FALSE], NewSession>>
    /\ spoken = <<>>

-----------------------------------------------------------------------------
(* The listening flag and the recognition sessions (under Spec).           *)

\* C24: while the session most recently started by startVoiceInput has fired
\* onstart and has not ended, errored or been stopped, the listening flag is
\* true; no callback of an earlier session clears it.
C24_CurrentSessionKeepsFlag ==
    (/\ recognition # 0
     /\ sessions[recognition].phase \in {"listening", "heard"}
     /\ ~sessions[recognition].stopped)
        => isListening

\* C24 witness: the first session was stopped, a second one was started and
\* fired onstart, and the late onend of the first session has just cleared
\* the flag while the second session is listening.
C24_Witness ==
    /\ lastOp.name = "onend"
    /\ lastOp.session = 1
    /\ recognition = 2
    /\ sessions = <<[phase |-> "ended", stopped |-> TRUE],
                    [phase |-> "listening", stopped |-> FALSE]>>
    /\ ~isListening

\* C25: whenever the listening flag is true, some recognition session has
\* fired onstart, has fired neither onend nor onerror and has not been
\* stopped; the flag is false initially, after every onend and onerror, and
\* after a stopVoiceInput that stopped a session.
C25_FlagMeansLiveSession ==
    /\ isListening =>
            \E s \in DOMAIN sessions :
                sessions[s].phase \in {"listening", "heard"} /\ ~sessions[s].stopped
    /\ lastOp.name \in {"init", "onend", "onerror"} => ~isListening
    /\ (lastOp.name = "stopVoiceInput" /\ spoken = <<Msg.Stopped>>) => ~isListening

\* C25 witness: a session that stopVoiceInput stopped before it started has
\* fired onstart; the flag is true and every other session has closed.
C25_Witness ==
    /\ lastOp.name = "onstart"
    /\ isListening
    /\ sessions[lastOp.session].stopped
    /\ \A s \in DOMAIN sessions \ {lastOp.session} :
            sessions[s].phase \in {"errored", "ended"}

\* C26: stopVoiceInput changes nothing and speaks nothing when there is no
\* recognition object or the listening flag is false; otherwise it asks the
\* current session to stop, sets the flag to false before that session's
\* onend arrives and speaks 'Stopped listening for voice input.' once, so the
\* second of two calls in a row speaks nothing.
C26_StopVoiceInputEffect ==
    [][lastOp'.name = "stopVoiceInput" =>
          /\ UNCHANGED <<supported, recognition, editor, widget>>
          /\ issued' = <<>>
          /\ IF recognition = 0 \/ ~isListening
             THEN /\ UNCHANGED <<isListening, sessions>>
                  /\ spoken' = <<>>
             ELSE /\ sessions' = [sessions EXCEPT ![recognition].stopped = TRUE]
                  /\ sessions'[recognition].phase = sessions[recognition].phase
                  /\ ~isListening'
                  /\ spoken' = <<Msg.Stopped>>
          /\ lastOp.name = "stopVoiceInput" => spoken' = <<>>]_vars

\* C26 witness: stopVoiceInput has stopped the listening session; the flag
\* is false and the session has not fired onend.
C26_Witness ==
    /\ lastOp.name = "stopVoiceInput"
    /\ spoken = <<Msg.Stopped>>
    /\ ~isListening
    /\ recognition = 1
    /\ sessions = <<[phase |-> "listening", stopped |-> TRUE]>>

-----------------------------------------------------------------------------
(* The two command classifiers (under SpecDispatch).                       *)

\* C27: when processVoiceCommand takes the run, save or clear branch for a
\* transcript, also through 'execute' or 'delete', the executeCommand call of
\* that branch returns 'run', 'save' or 'clear' respectively and speaks the
\* confirmation of that intent after the 'I heard' utterance; no transcript
\* makes the voice path speak 'Command not recognized.'.
C27_ClassifiersAgree ==
    lastOp.name = "onresult" =>
        LET branch       == VoiceBranch(lastOp.text)
            argument     == CASE branch = "run"   -> Kw.run
                              [] branch = "save"  -> Kw.save
                              [] branch = "clear" -> Kw.clear
                              [] OTHER            -> <<>>
            confirmation == CASE branch = "run"   -> Msg.RunningCode
                              [] branch = "save"  -> Msg.SavingFile
                              [] branch = "clear" -> Msg.ClearingEditor
                              [] OTHER            -> <<>>
        IN  /\ branch \in {"run", "save", "clear"} =>
                    /\ executeCommand(argument).result = argument
                    /\ executeCommand(argument).spoken = <<confirmation>>
                    /\ spoken = <<Msg.HeardPrefix \o lastOp.text \o Msg.HeardSuffix,
                                  confirmation>>
            /\ \A i \in DOMAIN spoken : spoken[i] # Msg.NotRecognized

\* C27 witness: the transcript 'DELETE', which holds none of the words
\* executeCommand tests, took the clear branch and the confirmation of clear
\* was spoken.
C27_Witness ==
    /\ lastOp.name = "onresult"
    /\ lastOp.text = Word.DELETE
    /\ executeCommand(lastOp.text).result = <<>>
    /\ VoiceBranch(lastOp.text) = "clear"
    /\ spoken = <<Msg.HeardPrefix \o Word.DELETE \o Msg.HeardSuffix, Msg.ClearingEditor>>

====
